---- MODULE Spec2Model ----
(***************************************************************************)
(* A model of the bc2cnf translator: the gate DAG (Gate, ChildAssoc), the   *)
(* simplifier, the CNF normaliser, structural sharing, the cone of          *)
(* influence, the variable numbering and the CNF emitter (src/gate.cc,      *)
(* src/bc2cnf.cc).  The circuit store (class BC) is not part of src/; its   *)
(* operations are modelled from the specification and marked as such.       *)
(***************************************************************************)
EXTENDS Integers, Sequences, FiniteSets, TLC

VARIABLES pc,      \* position of main() in the pipeline
          bc,      \* the circuit: gates, edges, propagation stack, flags
          opts,    \* command line options
          inp,     \* the parsed input circuit (kept for reference)
          loc,     \* the local variables of main()
          out      \* the lines written to the output file

vars == <<pc, bc, opts, inp, loc, out>>

(***************************************************************************)
(* Generic helpers                                                         *)
(***************************************************************************)

\* left fold of Op over a sequence
FoldL(Op(_,_), base, seq) ==
  LET RECURSIVE go(_,_)
      go(acc, i) == IF i > Len(seq) THEN acc ELSE go(Op(acc, seq[i]), i + 1)
  IN go(base, 1)

\* seq without the element x
Without(seq, x) == SelectSeq(seq, LAMBDA y : y # x)

\* the elements of a sequence
Range(seq) == {seq[i] : i \in 1..Len(seq)}

\* Op applied to the value x
Then(x, Op(_)) == Op(x)

(***************************************************************************)
(* Gates and edges                                                         *)
(***************************************************************************)

\* Gate::init and the Gate constructors: a fresh gate of type t
NewGate(t) ==
  [type |-> t, ch |-> <<>>, pa |-> <<>>, handles |-> <<>>,
   det |-> FALSE, val |-> FALSE, tmin |-> 0, tmax |-> 0, temp |-> 0,
   inps |-> FALSE, mpos |-> FALSE, mneg |-> FALSE]

\* BC::install_gate: the gate is appended to the store; its index is its place
InstallGate(S, rec) == [S EXCEPT !.g = Append(@, rec)]

\* the index the next installed gate receives
NextIndex(S) == Len(S.g) + 1

\* ChildAssoc::ChildAssoc: link_parent and link_child both link at the list head
AddChild(S, p, c) ==
  LET id == Len(S.e) + 1
      G1 == [S.g EXCEPT ![p].ch = <<id>> \o @]
      G2 == [G1 EXCEPT ![c].pa = <<id>> \o @]
  IN [S EXCEPT !.e = Append(@, [p |-> p, c |-> c]), !.g = G2]

\* ChildAssoc::~ChildAssoc: unlink_parent and unlink_child
DelEdge(S, id) ==
  LET p == S.e[id].p
      c == S.e[id].c
      G1 == [S.g EXCEPT ![p].ch = Without(@, id)]
      G2 == [G1 EXCEPT ![c].pa = Without(@, id)]
  IN [S EXCEPT !.e[id] = [p |-> 0, c |-> 0], !.g = G2]

\* a change_child that links the new child and leaves the old child linked
ChangeChildLinked(S, id, nc) ==
  [S EXCEPT !.e[id].c = nc, !.g[nc].pa = <<id>> \o @]

\* ChildAssoc::change_child: unlink_child, link_child(new_child)
ChangeChild(S, id, nc) ==
  LET c == S.e[id].c
      G1 == [S.g EXCEPT ![c].pa = Without(@, id)]
      G2 == [G1 EXCEPT ![nc].pa = <<id>> \o @]
  IN [S EXCEPT !.e[id].c = nc, !.g = G2]

\* ChildAssoc::change_parent: unlink_parent, link_parent(new_parent)
ChangeParent(S, id, np) ==
  LET p == S.e[id].p
      G1 == [S.g EXCEPT ![p].ch = Without(@, id)]
      G2 == [G1 EXCEPT ![np].ch = <<id>> \o @]
  IN [S EXCEPT !.e[id].p = np, !.g = G2]

\* the child gates of g, in the order of its children list
Kids(S, g) == [i \in 1..Len(S.g[g].ch) |-> S.e[S.g[g].ch[i]].c]

\* the parent gates of g, in the order of its parents list
Folks(S, g) == [i \in 1..Len(S.g[g].pa) |-> S.e[S.g[g].pa[i]].p]

\* Gate::count_children
CountChildren(S, g) == Len(S.g[g].ch)

\* Gate::remove_all_children
RemoveAllChildren(S, g) == FoldL(LAMBDA T, id : DelEdge(T, id), S, S.g[g].ch)

\* Handle::change_gate for every handle: while(handles) handles->change_gate(to)
MoveHandles(S, from, to) ==
  LET G1 == FoldL(LAMBDA G, h : [G EXCEPT ![to].handles = <<h>> \o @],
                  S.g, S.g[from].handles)
  IN [S EXCEPT !.g = [G1 EXCEPT ![from].handles = <<>>]]

\* while(parents) parents->change_child(to)
MoveParents(S, from, to) ==
  FoldL(LAMBDA T, id : ChangeChild(T, id, to), S, S.g[from].pa)

(***************************************************************************)
(* The propagation stack                                                   *)
(***************************************************************************)

\* Gate::add_in_pstack
AddInPstack(S, g) ==
  IF S.g[g].inps THEN S
  ELSE [S EXCEPT !.g[g].inps = TRUE, !.ps = <<g>> \o @]

\* Gate::add_parents_in_pstack
AddParentsInPstack(S, g) ==
  FoldL(LAMBDA T, p : AddInPstack(T, p), S, Folks(S, g))

\* Gate::add_children_in_pstack
AddChildrenInPstack(S, g) ==
  FoldL(LAMBDA T, c : AddInPstack(T, c), S, Kids(S, g))

\* if(!child->parents) child->add_in_pstack(bc)
PushIfOrphan(S, c) == IF S.g[c].pa = <<>> THEN AddInPstack(S, c) ELSE S

\* a failed assert() or internal_error(): the program aborts
Abort(S) == [S EXCEPT !.res = "error"]

\* return false: an inconsistency was derived
Unsat(S) == [S EXCEPT !.res = "unsat"]

\* a loop over every gate: the gate at each index i becomes Op(gate, i)
MapGates(S, Op(_,_)) ==
  [S EXCEPT !.g = FoldL(LAMBDA G, i : [G EXCEPT ![i] = Op(@, i)],
                        S.g, [i \in 1..Len(S.g) |-> i])]

\* set every temp field of the gates in gs to v
SetTemps(S, gs, v) ==
  MapGates(S, LAMBDA r, i : IF i \in gs THEN [r EXCEPT !.temp = v] ELSE r)

(***************************************************************************)
(* Helpers of the simplifier                                               *)
(***************************************************************************)

\* the store T if the call that produced it failed, and Op(T) if it did not
IfOk(T, Op(_)) == IF T.res # "ok" THEN T ELSE Op(T)

\* determined = true; value = v
SetDet(S, g, v) == [S EXCEPT !.g[g].det = TRUE, !.g[g].val = v]

\* bc->changed = true
SetChanged(S) == [S EXCEPT !.changed = TRUE]

\* Gate::transform_into_constant
TransformIntoConstant(S, g, v) ==
  IF S.g[g].det /\ S.g[g].val # v THEN Abort(S)
  ELSE LET S1 == [S EXCEPT !.g[g].det = TRUE, !.g[g].val = v,
                           !.g[g].type = IF v THEN "TRUE" ELSE "FALSE"]
           S2 == FoldL(LAMBDA T, id : LET c == T.e[id].c
                                      IN PushIfOrphan(DelEdge(T, id), c),
                       S1, S1.g[g].ch)
       IN SetChanged(S2)

\* transform_into_constant(bc, v); add_parents_in_pstack(bc)
BecomeConstant(S, g, v) ==
  IfOk(TransformIntoConstant(S, g, v), LAMBDA T : AddParentsInPstack(T, g))

\* if(determined && value != v) return false; else become the constant v
ConstantOrUnsat(S, g, v) ==
  IF S.g[g].det /\ S.g[g].val # v THEN Unsat(S) ELSE BecomeConstant(S, g, v)

\* the temp fields of the children, and of the children of NOT children, := 0
ClearChildTemps(S, g) ==
  LET ks == Range(Kids(S, g))
      gs == ks \cup {Kids(S, k)[1] : k \in {k \in ks : S.g[k].type = "NOT"}}
  IN SetTemps(S, gs, 0)

\* the scanning loop of Gate::remove_g_not_g_and_duplicate_children
GNotGScan(S, g) ==
  LET es == S.g[g].ch
      RECURSIVE go(_,_)
      go(T, i) ==
        IF i > Len(es) THEN [S |-> T, found |-> FALSE]
        ELSE LET c == T.e[es[i]].c IN
          IF T.g[c].det THEN go(T, i + 1)
          ELSE IF T.g[c].temp = 2 THEN [S |-> T, found |-> TRUE]
          ELSE IF T.g[c].temp = 1 THEN go(DelEdge(T, es[i]), i + 1)
          ELSE LET T1 == [T EXCEPT !.g[c].temp = 1] IN
            IF T.g[c].type = "NOT"
            THEN LET gc == Kids(T, c)[1] IN
                 IF T1.g[gc].temp = 1 THEN [S |-> T1, found |-> TRUE]
                 ELSE go([T1 EXCEPT !.g[gc].temp = 2], i + 1)
            ELSE go(T1, i + 1)
  IN go(S, 1)

\* Gate::remove_g_not_g_and_duplicate_children
RemoveGNotGAndDuplicateChildren(S, g) ==
  IF S.g[g].type \notin {"OR", "AND", "EQUIV"} THEN S
  ELSE Then(GNotGScan(ClearChildTemps(S, g), g), LAMBDA r :
         Then(ClearChildTemps(r.S, g), LAMBDA T :
           IF r.found THEN ConstantOrUnsat(T, g, T.g[g].type = "OR")
           ELSE IF CountChildren(T, g) = 1 THEN AddInPstack(T, g) ELSE T))

(***************************************************************************)
(* Gate::simplify                                                          *)
(***************************************************************************)

\* the dead gate rule: no parents, no handles, not determined
SimplifyDead(S, g) ==
  LET S1 == RemoveAllChildren(AddChildrenInPstack(S, g), g)
  IN SetChanged([S1 EXCEPT !.g[g].type = "DELETED"])

\* case tFALSE, case tTRUE
SimplifyConst(S, g) ==
  LET v == (S.g[g].type = "TRUE") IN
  IF S.g[g].det /\ S.g[g].val # v THEN Unsat(S)
  ELSE Then(IF S.g[g].det THEN S ELSE AddParentsInPstack(SetDet(S, g, v), g),
            LAMBDA T : IF T.g[g].handles = <<>> /\ T.g[g].pa = <<>>
                       THEN [T EXCEPT !.g[g].type = "DELETED"] ELSE T)

\* an input gate asks to be simplified again
SimplifyVarAgain(S, g) == AddInPstack(S, g)

\* case tVAR
SimplifyVar(S, g) ==
  IF S.g[g].det /\ S.mti THEN TransformIntoConstant(S, g, S.g[g].val) ELSE S

\* the value v is written into the child whatever value it has
PassToChildUnchecked(S, g, c, v) ==
  BecomeConstant(AddInPstack(SetDet(S, c, v), c), g, S.g[g].val)

\* a determined REF or NOT gate passes the value v on to its child
PassToChild(S, g, c, v) ==
  IF S.g[c].det
  THEN IF S.g[c].val # v THEN Unsat(S) ELSE BecomeConstant(S, g, S.g[g].val)
  ELSE BecomeConstant(AddInPstack(SetDet(S, c, v), c), g, S.g[g].val)

\* the parents go to the child and the handles are left behind
UnifyParentsOnly(S, g, c) ==
  LET S1 == AddParentsInPstack(S, g)
      S3 == RemoveAllChildren(MoveParents(S1, g, c), g)
  IN SetChanged([S3 EXCEPT !.g[g].type = "DELETED"])

\* Unify this and child: parents and handles move to the child
UnifyWithChild(S, g, c) ==
  LET S1 == AddParentsInPstack(S, g)
      S2 == MoveHandles(MoveParents(S1, g, c), g, c)
      S3 == RemoveAllChildren(S2, g)
  IN SetChanged([S3 EXCEPT !.g[g].type = "DELETED"])

\* case tREF
SimplifyRef(S, g) ==
  LET c == Kids(S, g)[1] IN
  IF S.g[g].det THEN PassToChild(S, g, c, S.g[g].val)
  ELSE IF S.g[c].det THEN BecomeConstant(S, g, S.g[c].val)
  ELSE UnifyWithChild(S, g, c)

\* case tNOT
SimplifyNot(S, g) ==
  LET c == Kids(S, g)[1] IN
  IF S.g[g].det THEN PassToChild(S, g, c, ~S.g[g].val)
  ELSE IF S.g[c].det THEN BecomeConstant(S, g, ~S.g[c].val)
  ELSE IF S.g[c].type = "NOT"
  THEN LET gc == Kids(S, c)[1]
           S1 == RemoveAllChildren([S EXCEPT !.g[g].type = "REF"], g)
           S2 == AddChild(PushIfOrphan(S1, c), g, gc)
       IN SetChanged(AddInPstack(S2, g))
  ELSE S

\* BC::new_NOT: a new NOT gate over c is created and installed
NewNot(S, c) == AddChild(InstallGate(S, NewGate("NOT")), NextIndex(S), c)

\* add_child(cs[1]); add_child(cs[2]); ...
AddChildren(S, g, cs) == FoldL(LAMBDA T, c : AddChild(T, g, c), S, cs)

\* the common shape of the ITE rules: the gate drops its children, takes the
\* type t and the children cs (in add_child order) and is pushed on the stack
IteRewrite(S, g, t, cs, pushKids, pushParents) ==
  LET S0 == IF pushKids THEN AddChildrenInPstack(S, g) ELSE S
      S1 == RemoveAllChildren(S0, g)
      S2 == AddChildren([S1 EXCEPT !.g[g].type = t], g, cs)
      S3 == AddInPstack(S2, g)
      S4 == IF pushParents THEN AddParentsInPstack(S3, g) ELSE S3
  IN SetChanged(S4)

\* ITE(x,y,~y) --> EQUIV(x,y) and ITE(x,~y,y) --> ODD(x,y): the NOT child n
\* is pushed if it lost its last parent
IteNegRewrite(S, g, t, n, cs) ==
  LET S1 == PushIfOrphan(RemoveAllChildren(S, g), n)
      S2 == AddChildren([S1 EXCEPT !.g[g].type = t], g, cs)
  IN SetChanged(AddInPstack(S2, g))

\* case tITE
SimplifyIte(S, g) ==
  LET i == Kids(S, g)[1]
      t == Kids(S, g)[2]
      e == Kids(S, g)[3]
      Det(x, v) == S.g[x].det /\ S.g[x].val = v
      n == NextIndex(S)
  IN IF Det(i, TRUE) THEN IteRewrite(S, g, "REF", <<t>>, TRUE, FALSE)
     ELSE IF Det(i, FALSE) THEN IteRewrite(S, g, "REF", <<e>>, TRUE, FALSE)
     ELSE IF Det(t, TRUE) THEN IteRewrite(S, g, "OR", <<i, e>>, TRUE, TRUE)
     ELSE IF Det(t, FALSE)
     THEN LET S0 == AddChildrenInPstack(S, g)
              S1 == RemoveAllChildren(S0, g)
              S2 == NewNot([S1 EXCEPT !.g[g].type = "AND"], i)
              S3 == AddChildren(S2, g, <<n, e>>)
          IN SetChanged(AddParentsInPstack(AddInPstack(S3, g), g))
     ELSE IF Det(e, TRUE)
     THEN LET S0 == AddChildrenInPstack(S, g)
              S1 == RemoveAllChildren(S0, g)
              S2 == NewNot([S1 EXCEPT !.g[g].type = "OR"], i)
              S3 == AddChildren(S2, g, <<n, t>>)
          IN SetChanged(AddParentsInPstack(AddInPstack(S3, g), g))
     ELSE IF Det(e, FALSE) THEN IteRewrite(S, g, "AND", <<i, t>>, TRUE, TRUE)
     ELSE IF t = e THEN IteRewrite(S, g, "REF", <<t>>, TRUE, FALSE)
     ELSE IF i = t THEN IteRewrite(S, g, "OR", <<i, e>>, TRUE, TRUE)
     ELSE IF i = e THEN IteRewrite(S, g, "AND", <<i, t>>, TRUE, TRUE)
     ELSE IF S.g[e].type = "NOT" /\ Kids(S, e)[1] = t
     THEN IteNegRewrite(S, g, "EQUIV", e, <<i, t>>)
     ELSE IF S.g[t].type = "NOT" /\ Kids(S, t)[1] = e
     THEN IteNegRewrite(S, g, "ODD", t, <<i, e>>)
     ELSE S

\* the children are dropped whatever their values are
ForceChildrenUnchecked(S, g, v) == RemoveAllChildren(S, g)

\* a determined OR (false) or AND (true) forces the value v on every child
ForceChildren(S, g, v) ==
  LET RECURSIVE go(_)
      go(T) ==
        IF T.g[g].ch = <<>> THEN T
        ELSE LET id == T.g[g].ch[1]
                 c == T.e[id].c
             IN IF T.g[c].det
                THEN IF T.g[c].val # v THEN Unsat(T) ELSE go(DelEdge(T, id))
                ELSE go(DelEdge(AddInPstack(SetDet(T, c, v), c), id))
  IN go(S)

\* the determined children are removed; a child with the absorbing value
\* stops the loop
DropDetermined(S, g, abs) ==
  LET es == S.g[g].ch
      RECURSIVE go(_,_,_)
      go(T, i, n) ==
        IF i > Len(es) THEN [S |-> T, found |-> FALSE, undet |-> n]
        ELSE LET c == T.e[es[i]].c IN
          IF T.g[c].det
          THEN IF T.g[c].val = abs THEN [S |-> T, found |-> TRUE, undet |-> n]
               ELSE go(PushIfOrphan(DelEdge(T, es[i]), c), i + 1, n)
          ELSE go(T, i + 1, n + 1)
  IN go(S, 1, 0)

\* the parents of the children of g, in the order the sharing loop meets them
ParentsOfChildren(S, g) ==
  FoldL(LAMBDA acc, c : acc \o Folks(S, c), <<>>, Kids(S, g))

\* OR(x,y,z,v), t = OR(y,z) ==> OR(x,t,v), and the same for AND.  Skipping
\* the consecutive edges to one parent does not change the first match.
SubsetShare(S, g) ==
  LET t == S.g[g].type
      Fits(T, p) == /\ p # g
                    /\ T.g[p].type = t
                    /\ (T.g[p].det \/ T.g[p].pa # <<>>)
                    /\ \A k \in Range(Kids(T, p)) : T.g[k].temp = 1
                    /\ CountChildren(T, p) > 1
                    /\ CountChildren(T, p) < CountChildren(T, g)
      replace(T, p) ==
        AddChild(FoldL(LAMBDA U, id : IF U.g[U.e[id].c].temp = 0
                                      THEN DelEdge(U, id) ELSE U,
                       SetTemps(T, Range(Kids(T, p)), 0), T.g[g].ch), g, p)
      first(T, ps) == IF ps = <<>> THEN T ELSE replace(T, ps[1])
      scan(T) == first(T, SelectSeq(ParentsOfChildren(T, g),
                                    LAMBDA p : Fits(T, p)))
  IN Then(scan(SetTemps(S, Range(Kids(S, g)), 1)),
          LAMBDA T : SetTemps(T, Range(Kids(T, g)), 0))

\* OR(x,OR(t,u,v),y) = OR(x,t,u,v,y), and the same for AND
Collapse(S, g) ==
  LET t == S.g[g].type
      es == S.g[g].ch
      RECURSIVE go(_,_,_)
      go(T, i, col) ==
        IF i > Len(es) THEN IF col THEN AddInPstack(T, g) ELSE T
        ELSE LET c == T.e[es[i]].c IN
          IF T.g[c].type = t /\ ~T.g[c].det /\ Len(T.g[c].pa) = 1
          THEN go(AddInPstack(DelEdge(AddChildren(T, g, Kids(T, c)), es[i]), c),
                  i + 1, TRUE)
          ELSE go(T, i + 1, col)
  IN go(S, 1, FALSE)

\* case tOR, case tAND: abs is the absorbing value (true for OR)
SimplifyOrAnd(S, g) ==
  LET t == S.g[g].type
      abs == (t = "OR")
  IN IF S.g[g].det /\ S.g[g].val = ~abs
     THEN IfOk(ForceChildren(S, g, ~abs),
               LAMBDA T : BecomeConstant(T, g, ~abs))
     ELSE Then(DropDetermined(S, g, abs), LAMBDA r :
       IF r.found THEN BecomeConstant(r.S, g, abs)
       ELSE IF r.undet = 0 THEN ConstantOrUnsat(r.S, g, ~abs)
       ELSE IF r.undet = 1 THEN AddInPstack([r.S EXCEPT !.g[g].type = "REF"], g)
       ELSE Then(RemoveGNotGAndDuplicateChildren(r.S, g), LAMBDA T :
         IF T.res # "ok" \/ T.g[g].type # t THEN T
         ELSE Collapse(IF CountChildren(T, g) >= 3 THEN SubsetShare(T, g)
                       ELSE T, g)))

\* BC::depends_on(a, b): b is in the transitive child closure of a
DependsOn(S, a, b) ==
  LET RECURSIVE reach(_,_)
      reach(front, seen) ==
        LET new == UNION {Range(Kids(S, x)) : x \in front} \ seen
        IN IF new = {} THEN seen ELSE reach(new, seen \cup new)
  IN b \in reach({a}, {})

\* ODD <-> EVEN
Toggle(t) == IF t = "ODD" THEN "EVEN" ELSE "ODD"

\* ODD(F,x,y) = ODD(x,y), ODD(T,x,y) = EVEN(x,y), and the same for EVEN
DropParityDetermined(S, g) ==
  LET es == S.g[g].ch
      RECURSIVE go(_,_,_)
      go(T, i, n) ==
        IF i > Len(es) THEN [S |-> T, undet |-> n]
        ELSE LET c == T.e[es[i]].c IN
          IF ~T.g[c].det THEN go(T, i + 1, n + 1)
          ELSE LET T1 == IF T.g[c].val
                         THEN [T EXCEPT !.g[g].type = Toggle(@)] ELSE T
               IN go(PushIfOrphan(DelEdge(T1, es[i]), c), i + 1, n)
  IN go(S, 1, 0)

\* ODD(NOT(x),...) = EVEN(x,...) and EVEN(NOT(x),...) = ODD(x,...)
AbsorbNegations(S, g) ==
  LET es == S.g[g].ch
      RECURSIVE go(_,_,_)
      go(T, i, hasdet) ==
        IF i > Len(es) THEN [S |-> T, hasdet |-> hasdet]
        ELSE LET c == T.e[es[i]].c IN
          IF T.g[c].type = "NOT"
          THEN LET gc == Kids(T, c)[1]
                   T1 == PushIfOrphan(ChangeChild(T, es[i], gc), c)
               IN go([T1 EXCEPT !.g[g].type = Toggle(@)], i + 1,
                     hasdet \/ T.g[gc].det)
          ELSE go(T, i + 1, hasdet)
  IN go(S, 1, FALSE)

\* the first edge of g, before the edge id, that leads to the child c
PreviousOccurrence(S, g, id, c) ==
  LET es == S.g[g].ch
      k == CHOOSE k \in 1..Len(es) : es[k] = id
      js == {j \in 1..(k - 1) : S.e[es[j]].c = c}
  IN IF js = {} THEN 0 ELSE es[CHOOSE j \in js : \A j2 \in js : j <= j2]

\* the scanning loop of Gate::remove_parity_duplicate_children
ParityScan(S, g) ==
  LET es == S.g[g].ch
      RECURSIVE go(_,_)
      go(T, i) ==
        IF i > Len(es) THEN T
        ELSE LET c == T.e[es[i]].c IN
          IF T.g[c].det THEN go(T, i + 1)
          ELSE IF T.g[c].temp = 1
          THEN LET prev == PreviousOccurrence(T, g, es[i], c)
                   T0 == [T EXCEPT !.g[c].temp = 0]
               IN IF prev = 0 THEN Abort(T0)
                  ELSE go(PushIfOrphan(DelEdge(DelEdge(T0, prev), es[i]), c),
                          i + 1)
          ELSE go([T EXCEPT !.g[c].temp = 1], i + 1)
  IN go(SetTemps(S, Range(Kids(S, g)), 0), 1)

\* Gate::remove_parity_duplicate_children
RemoveParityDuplicateChildren(S, g) ==
  IF S.g[g].type \notin {"ODD", "EVEN"} THEN S
  ELSE IfOk(ParityScan(S, g), LAMBDA T0 :
         Then(SetTemps(T0, Range(Kids(T0, g)), 0), LAMBDA T :
           IF CountChildren(T, g) = 0
           THEN ConstantOrUnsat(T, g, T.g[g].type = "EVEN")
           ELSE IF CountChildren(T, g) = 1 THEN AddInPstack(T, g) ELSE T))

\* the edges from parents other than g to the gate from are moved to the gate to
MoveForeignParents(S, from, to, g) ==
  FoldL(LAMBDA T, id : IF T.e[id].p # g THEN ChangeChild(T, id, to) ELSE T,
        S, S.g[from].pa)

\* an input gate among the two children is made a REF gate over the other
\* child without asking whether that child depends on it
ParityEquivalentUnchecked(S, g) ==
  LET c1 == Kids(S, g)[1]
      c2 == Kids(S, g)[2]
      T == BecomeConstant(S, g, S.g[g].val)
      MakeRef(x, y) == AddInPstack(AddChild([T EXCEPT !.g[x].type = "REF"], x, y), x)
  IN IF c1 = c2 THEN [S |-> T, done |-> TRUE]
     ELSE IF S.g[c1].type = "VAR" THEN [S |-> MakeRef(c1, c2), done |-> TRUE]
     ELSE IF S.g[c2].type = "VAR" THEN [S |-> MakeRef(c2, c1), done |-> TRUE]
     ELSE [S |-> S, done |-> FALSE]

\* EVEN(x,y) = T and ODD(x,y) = F imply that the two children are equivalent
ParityEquivalent(S, g) ==
  LET c1 == Kids(S, g)[1]
      c2 == Kids(S, g)[2]
      v == S.g[g].val
      MakeRef(x, y) ==
        LET T == BecomeConstant(S, g, v)
        IN AddInPstack(AddChild([T EXCEPT !.g[x].type = "REF"], x, y), x)
  IN IF c1 = c2 THEN [S |-> BecomeConstant(S, g, v), done |-> TRUE]
     ELSE IF S.mti /\ S.g[c1].type = "VAR" /\ ~DependsOn(S, c2, c1)
     THEN [S |-> MakeRef(c1, c2), done |-> TRUE]
     ELSE IF S.mti /\ S.g[c2].type = "VAR" /\ ~DependsOn(S, c1, c2)
     THEN [S |-> MakeRef(c2, c1), done |-> TRUE]
     ELSE IF Len(S.g[c1].pa) >= 2 /\ Len(S.g[c2].pa) >= 2
     THEN IF ~DependsOn(S, c1, c2)
          THEN [S |-> AddParentsInPstack(MoveForeignParents(S, c2, c1, g), c1),
                done |-> FALSE]
          ELSE [S |-> AddParentsInPstack(MoveForeignParents(S, c1, c2, g), c2),
                done |-> FALSE]
     ELSE [S |-> S, done |-> FALSE]

\* EVEN(x,y) = F and ODD(x,y) = T imply that the two children are inequivalent
ParityInequivalent(S, g) ==
  LET c1 == Kids(S, g)[1]
      c2 == Kids(S, g)[2]
      v == S.g[g].val
      n == NextIndex(S)
      MakeNot(x, y) ==
        LET T == BecomeConstant(S, g, v)
            T1 == AddChild([T EXCEPT !.g[x].type = "NOT"], x, y)
        IN AddInPstack(AddParentsInPstack(T1, x), x)
      ViaNot(x, y) ==
        LET T == MoveForeignParents(NewNot(S, x), y, n, g)
        IN AddInPstack(AddParentsInPstack(T, n), n)
  IN IF c1 = c2 THEN [S |-> Unsat(S), done |-> TRUE]
     ELSE IF S.mti /\ S.g[c1].type = "VAR" /\ ~DependsOn(S, c2, c1)
     THEN [S |-> MakeNot(c1, c2), done |-> TRUE]
     ELSE IF S.mti /\ S.g[c2].type = "VAR" /\ ~DependsOn(S, c1, c2)
     THEN [S |-> MakeNot(c2, c1), done |-> TRUE]
     ELSE IF Len(S.g[c1].pa) >= 2 /\ Len(S.g[c2].pa) >= 2
     THEN IF S.g[c1].type = "VAR" \/ ~DependsOn(S, c1, c2)
          THEN [S |-> ViaNot(c1, c2), done |-> FALSE]
          ELSE [S |-> ViaNot(c2, c1), done |-> FALSE]
     ELSE [S |-> S, done |-> FALSE]

\* ODD(x, OR(x,y,z)) == ~x & OR(y,z), used only if the OR has no other parents
OddOverOr(S, g) ==
  LET c1 == Kids(S, g)[1]
      c2 == Kids(S, g)[2]
      Single(c) == S.g[c].type = "OR" /\ Len(S.g[c].pa) = 1
      Rewrite(x, o) ==
        LET nor == NextIndex(S)
            S1 == InstallGate(S, NewGate("OR"))
            S2 == AddChildren(S1, nor, SelectSeq(Kids(S1, o), LAMBDA k : k # x))
            S3 == PushIfOrphan(RemoveAllChildren(S2, g), o)
            nnot == NextIndex(S3)
            S4 == NewNot(S3, x)
            S5 == AddChildren([S4 EXCEPT !.g[g].type = "AND"], g, <<nnot, nor>>)
        IN AddInPstack(AddInPstack(AddInPstack(S5, g), nnot), nor)
  IN IF S.g[c1].det \/ S.g[c2].det THEN Abort(S)
     ELSE IF Single(c2)
     THEN IF c1 \in Range(Kids(S, c2)) THEN Rewrite(c1, c2) ELSE S
     ELSE IF Single(c1)
     THEN IF c2 \in Range(Kids(S, c1)) THEN Rewrite(c2, c1) ELSE S
     ELSE S

\* the rules for ODD and EVEN gates with undetermined, distinct children
ParityBinary(S, g) ==
  LET t == S.g[g].type
      two == CountChildren(S, g) = 2 /\ S.g[g].det
      eq == two /\ S.g[g].val = (t = "EVEN")
      ne == two /\ S.g[g].val = (t = "ODD")
  IN Then(IF eq THEN ParityEquivalent(S, g)
          ELSE IF ne THEN ParityInequivalent(S, g)
          ELSE [S |-> S, done |-> FALSE],
          LAMBDA r :
            IF r.done \/ r.S.res # "ok" THEN r.S
            ELSE IF r.S.g[g].type = "ODD" /\ CountChildren(r.S, g) = 2
            THEN OddOverOr(r.S, g)
            ELSE r.S)

\* case tODD, case tEVEN
SimplifyParity(S, g) ==
  Then(DropParityDetermined(S, g), LAMBDA r :
    IF r.undet = 0 THEN ConstantOrUnsat(r.S, g, r.S.g[g].type = "EVEN")
    ELSE IF r.undet = 1
    THEN IF r.S.g[g].type = "ODD"
         THEN AddInPstack([r.S EXCEPT !.g[g].type = "REF"], g)
         ELSE AddInPstack(AddParentsInPstack(
                            [r.S EXCEPT !.g[g].type = "NOT"], g), g)
    ELSE Then(AbsorbNegations(r.S, g), LAMBDA a :
      IF a.hasdet THEN AddInPstack(a.S, g)
      ELSE Then(RemoveParityDuplicateChildren(a.S, g), LAMBDA T :
        IF T.res # "ok" \/ T.g[g].inps \/ T.g[g].type \notin {"ODD", "EVEN"}
        THEN T
        ELSE IF CountChildren(T, g) < 2 THEN Abort(T)
        ELSE ParityBinary(T, g))))

\* while(children) children->change_parent(np)
MoveChildren(S, g, np) ==
  FoldL(LAMBDA T, id : ChangeParent(T, id, np), S, S.g[g].ch)

\* EQUIV(F,x,y,z) --> NOT(OR(F,x,y,z))
EquivFalseChild(S, g) ==
  LET n == NextIndex(S)
      S1 == MoveChildren(InstallGate(S, NewGate("OR")), g, n)
      S2 == AddChild([S1 EXCEPT !.g[g].type = "NOT"], g, n)
  IN AddInPstack(AddInPstack(AddParentsInPstack(S2, g), g), n)

\* EQUIV(...) = T: Unify all input gates
EquivUnifyInputs(S, g) ==
  LET ks == Kids(S, g)
      RECURSIVE go(_,_,_,_)
      go(T, i, first, unified) ==
        IF i > Len(ks)
        THEN [S |-> IF unified THEN AddParentsInPstack(T, first) ELSE T,
              done |-> unified]
        ELSE LET c == ks[i] IN
          IF T.g[c].type # "VAR" THEN go(T, i + 1, first, unified)
          ELSE IF Len(T.g[c].pa) = 1
          THEN LET o == IF i < Len(ks) THEN ks[i + 1] ELSE ks[i - 1]
                   T1 == AddChild([T EXCEPT !.g[c].type = "REF"], c, o)
               IN [S |-> IF o = c THEN Abort(T)
                         ELSE AddInPstack(AddInPstack(T1, g), c),
                   done |-> TRUE]
          ELSE IF first = 0 THEN go(T, i + 1, c, unified)
          ELSE LET T1 == AddChild([T EXCEPT !.g[c].type = "REF"], c, first)
               IN go(AddInPstack(T1, c), i + 1, first, TRUE)
  IN go(S, 1, 0, FALSE)

\* the first child is taken for the least one
FirstChild(S, g) == Kids(S, g)[1]

\* the search for a least child gate of a true EQUIV gate
LeastChild(S, g) ==
  LET ks == Kids(S, g)
  IN FoldL(LAMBDA least, c : IF DependsOn(S, least, c) THEN c ELSE least,
           ks[1], Tail(ks))

\* the edges to the other children of a true EQUIV gate move to its least child
EquivMoveToLeast(S, g) ==
  LET moved(least) ==
        Then(FoldL(LAMBDA U, c : IF c = least THEN U
                                 ELSE MoveForeignParents(U, c, least, g),
                   S, Kids(S, g)),
             LAMBDA T : IF T.e # S.e THEN AddParentsInPstack(T, least) ELSE T)
  IN moved(LeastChild(S, g))

\* case tEQUIV
SimplifyEquiv(S, g) ==
  LET ks == Kids(S, g)
      dets == {i \in 1..Len(ks) : S.g[ks[i]].det}
      d == CHOOSE i \in dets : \A j \in dets : i <= j
  IN IF ks = <<>> THEN Abort(S)
     ELSE IF Len(ks) = 1 THEN ConstantOrUnsat(S, g, TRUE)
     ELSE IF dets # {}
     THEN IF S.g[ks[d]].val
          THEN AddInPstack(AddParentsInPstack(
                             [S EXCEPT !.g[g].type = "AND"], g), g)
          ELSE EquivFalseChild(S, g)
     ELSE Then(RemoveGNotGAndDuplicateChildren(S, g), LAMBDA T :
       IF T.res # "ok" \/ T.g[g].inps \/ T.g[g].type # "EQUIV" THEN T
       ELSE IF T.g[g].det /\ T.g[g].val
       THEN Then(IF T.mti THEN EquivUnifyInputs(T, g)
                 ELSE [S |-> T, done |-> FALSE],
                 LAMBDA u : IF u.done THEN u.S ELSE EquivMoveToLeast(u.S, g))
       ELSE IF T.g[g].det /\ ~T.g[g].val /\ CountChildren(T, g) = 2
       THEN AddInPstack(AddParentsInPstack(
                          [T EXCEPT !.g[g].type = "EVEN"], g), g)
       ELSE T)

\* the first edge of g, before the edge id, that leads to a NOT gate over c
PreviousNegation(S, g, id, c) ==
  LET es == S.g[g].ch
      k == CHOOSE k \in 1..Len(es) : es[k] = id
      js == {j \in 1..(k - 1) : /\ S.g[S.e[es[j]].c].type = "NOT"
                                /\ Kids(S, S.e[es[j]].c)[1] = c}
  IN IF js = {} THEN 0 ELSE es[CHOOSE j \in js : \A j2 \in js : j <= j2]

\* tmin = (tmin == 0)?0:tmin - 1; tmax = tmax - 1
DecBounds(S, g) ==
  [S EXCEPT !.g[g].tmin = IF @ = 0 THEN 0 ELSE @ - 1, !.g[g].tmax = @ - 1]

\* the scanning loop of Gate::remove_cardinality_g_not_g; a pair x, ~x is
\* removed and the bounds decrease
CardinalityScan(S, g) ==
  LET es == S.g[g].ch
      RECURSIVE go(_,_), dec(_,_)
      dec(T, i) ==
        IF T.g[g].tmax = 0
        THEN [S |-> ConstantOrUnsat(T, g, FALSE), done |-> TRUE]
        ELSE go(DecBounds(T, g), i + 1)
      go(T, i) ==
        IF i > Len(es) THEN [S |-> T, done |-> FALSE]
        ELSE LET c == T.e[es[i]].c IN
          IF T.g[c].temp = 2
          THEN LET T0 == [T EXCEPT !.g[c].temp = 0]
                   prev == PreviousNegation(T0, g, es[i], c)
                   c2 == T0.e[prev].c
                   T1 == PushIfOrphan(
                           DelEdge([T0 EXCEPT !.g[c2].temp = 0], prev), c2)
               IN IF prev = 0 THEN [S |-> Abort(T0), done |-> TRUE]
                  ELSE dec(DelEdge(T1, es[i]), i)
          ELSE LET T0 == [T EXCEPT !.g[c].temp = 1] IN
            IF T0.g[c].type # "NOT" THEN go(T0, i + 1)
            ELSE LET gc == Kids(T0, c)[1] IN
              IF T0.g[gc].temp # 1
              THEN go([T0 EXCEPT !.g[gc].temp = 2], i + 1)
              ELSE LET T1 == [T0 EXCEPT !.g[c].temp = 0, !.g[gc].temp = 0]
                       prev == PreviousOccurrence(T1, g, es[i], gc)
                   IN IF prev = 0 THEN [S |-> Abort(T1), done |-> TRUE]
                      ELSE dec(PushIfOrphan(
                                 DelEdge(DelEdge(T1, prev), es[i]), c), i)
  IN go(S, 1)

\* Gate::remove_cardinality_g_not_g
RemoveCardinalityGNotG(S, g) ==
  IF S.g[g].type # "THRESHOLD" THEN S
  ELSE Then(CardinalityScan(ClearChildTemps(S, g), g),
            LAMBDA r : IF r.done THEN r.S ELSE ClearChildTemps(r.S, g))

\* [0,0](x,y,z) = NOT(OR(x,y,z)) and [0,2](x,y,z) = NOT(AND(x,y,z))
ThresholdToNot(S, g, t, pushParents) ==
  LET n == NextIndex(S)
      S1 == AddInPstack(InstallGate(S, NewGate(t)), n)
      S2 == MoveChildren(S1, g, n)
      S3 == AddChild([S2 EXCEPT !.g[g].type = "NOT", !.g[g].tmin = 0,
                                !.g[g].tmax = 0], g, n)
      S4 == AddInPstack(S3, g)
  IN IF pushParents THEN AddParentsInPstack(S4, g) ELSE S4

\* [L,U](F,x,y) = [L,U](x,y) and [L,U](T,x,y) = [L-1,U-1](x,y)
ThresholdDrop(S, g) ==
  LET es == S.g[g].ch
      RECURSIVE go(_,_,_)
      go(T, i, n) ==
        IF i > Len(es) THEN [S |-> T, undet |-> n, done |-> FALSE]
        ELSE IF T.g[g].tmin > T.g[g].tmax
        THEN [S |-> Abort(T), undet |-> n, done |-> TRUE]
        ELSE IF T.g[g].tmax = 0
        THEN [S |-> ThresholdToNot(T, g, "OR", FALSE), undet |-> n,
              done |-> TRUE]
        ELSE LET c == T.e[es[i]].c IN
          IF ~T.g[c].det THEN go(T, i + 1, n + 1)
          ELSE IF ~T.g[c].val THEN go(DelEdge(T, es[i]), i + 1, n)
          ELSE go(DecBounds(DelEdge(T, es[i]), g), i + 1, n)
  IN go(S, 1, 0)

\* the parent edge of c that the falsification loop visits after the edge fa
NextForeignParent(S, c, fa) ==
  LET pas == S.g[c].pa
      k == CHOOSE k \in 1..Len(pas) : pas[k] = fa
      js == {j \in (k + 1)..Len(pas) : S.e[pas[j]].p # S.e[fa].p}
  IN IF js = {} THEN 0 ELSE pas[CHOOSE j \in js : \A j2 \in js : j <= j2]

\* [0,2](x,y,z,v) = T ==> AND(x,y,z) = F
ThresholdFalsify(S, g) ==
  LET ks == Kids(S, g)
      RECURSIVE inner(_,_,_)
      inner(T, c, fa) ==
        IF fa = 0 \/ T.res # "ok" THEN T
        ELSE LET p == T.e[fa].p
                 nf == NextForeignParent(T, c, fa)
                 hit == /\ T.g[p].type = "AND"
                        /\ \A k \in Range(Kids(T, p)) : T.g[k].temp = 1
                        /\ CountChildren(T, p) > T.g[g].tmax
             IN IF ~hit THEN inner(T, c, nf)
                ELSE IF T.g[p].det /\ T.g[p].val THEN Unsat(T)
                ELSE inner(BecomeConstant(T, p, FALSE), c, nf)
  IN IfOk(FoldL(LAMBDA T, c : IF T.res # "ok" \/ T.g[c].pa = <<>> THEN T
                              ELSE inner(T, c, T.g[c].pa[1]),
                SetTemps(S, Range(ks), 1), ks),
          LAMBDA R : SetTemps(R, Range(Kids(R, g)), 0))

\* case tTHRESHOLD
SimplifyThreshold(S, g) ==
  IF S.g[g].tmin > S.g[g].tmax THEN ConstantOrUnsat(S, g, FALSE)
  ELSE Then(ThresholdDrop(S, g), LAMBDA r :
    IF r.done THEN r.S
    ELSE IF r.S.g[g].tmin > r.undet THEN ConstantOrUnsat(r.S, g, FALSE)
    ELSE Then(IF r.S.g[g].tmax > r.undet
              THEN [r.S EXCEPT !.g[g].tmax = r.undet] ELSE r.S, LAMBDA T :
      IF T.g[g].ch = <<>>
      THEN IF T.g[g].tmin # 0 \/ T.g[g].tmax # 0 THEN Abort(T)
           ELSE ConstantOrUnsat(T, g, TRUE)
      ELSE IF T.g[g].tmax = 0 THEN ThresholdToNot(T, g, "OR", TRUE)
      ELSE IF T.g[g].tmin = r.undet
      THEN AddInPstack([T EXCEPT !.g[g].type = "AND", !.g[g].tmin = 0,
                                 !.g[g].tmax = 0], g)
      ELSE IF T.g[g].tmin = 0 /\ T.g[g].tmax = r.undet
      THEN ConstantOrUnsat(T, g, TRUE)
      ELSE IF T.g[g].tmin = 0 /\ T.g[g].tmax + 1 = r.undet
      THEN ThresholdToNot(T, g, "AND", TRUE)
      ELSE IfOk(IF T.g[g].det /\ T.g[g].val THEN ThresholdFalsify(T, g) ELSE T,
                LAMBDA U : RemoveCardinalityGNotG(U, g))))

\* [L,](F,x,y) = [L,](x,y) and [L,](T,x,y) = [L-1,](x,y)
AtleastDrop(S, g) ==
  LET es == S.g[g].ch
      RECURSIVE go(_,_,_)
      go(T, i, n) ==
        IF i > Len(es) THEN [S |-> T, undet |-> n]
        ELSE LET c == T.e[es[i]].c IN
          IF ~T.g[c].det THEN go(T, i + 1, n + 1)
          ELSE IF ~T.g[c].val THEN go(DelEdge(T, es[i]), i + 1, n)
          ELSE go([DelEdge(T, es[i]) EXCEPT
                     !.g[g].tmin = IF @ = 0 THEN 0 ELSE @ - 1], i + 1, n)
  IN go(S, 1, 0)

\* case tATLEAST
SimplifyAtleast(S, g) ==
  Then(AtleastDrop(S, g), LAMBDA r :
    IF r.S.g[g].tmin = 0 THEN ConstantOrUnsat(r.S, g, TRUE)
    ELSE IF r.S.g[g].tmin > r.undet THEN ConstantOrUnsat(r.S, g, FALSE)
    ELSE IF r.S.g[g].tmin = r.undet
    THEN AddInPstack([r.S EXCEPT !.g[g].type = "AND", !.g[g].tmin = 0,
                                 !.g[g].tmax = 0], g)
    ELSE r.S)

\* Gate::simplify
GateSimplify(S, g) ==
  LET t == S.g[g].type IN
  IF t = "DELETED" THEN S
  ELSE IF S.g[g].pa = <<>> /\ S.g[g].handles = <<>> /\ ~S.g[g].det
  THEN SimplifyDead(S, g)
  ELSE CASE t \in {"FALSE", "TRUE"} -> SimplifyConst(S, g)
         [] t = "VAR" -> SimplifyVar(S, g)
         [] t = "REF" -> SimplifyRef(S, g)
         [] t = "NOT" -> SimplifyNot(S, g)
         [] t = "ITE" -> SimplifyIte(S, g)
         [] t \in {"OR", "AND"} -> SimplifyOrAnd(S, g)
         [] t \in {"ODD", "EVEN"} -> SimplifyParity(S, g)
         [] t = "EQUIV" -> SimplifyEquiv(S, g)
         [] t = "THRESHOLD" -> SimplifyThreshold(S, g)
         [] t = "ATLEAST" -> SimplifyAtleast(S, g)
         [] OTHER -> Abort(S)

(***************************************************************************)
(* Gate::cnf_normalize                                                     *)
(***************************************************************************)

\* if(determined and value != v) return false; transform_into_constant(bc, v)
NormConstant(S, g, v) ==
  IF S.g[g].det /\ S.g[g].val # v THEN Unsat(S)
  ELSE LET T == TransformIntoConstant(S, g, v)
       IN [T EXCEPT !.g[g].tmin = 0, !.g[g].tmax = 0]

\* case tFALSE, case tTRUE
NormalizeConst(S, g) ==
  LET v == (S.g[g].type = "TRUE") IN
  IF S.g[g].det /\ S.g[g].val # v THEN Unsat(S) ELSE SetDet(S, g, v)

\* Redirect parents and handles to the gate to; mark this gate as deleted
RedirectTo(S, g, to) ==
  LET S1 == MoveHandles(MoveParents(S, g, to), g, to)
  IN [RemoveAllChildren(S1, g) EXCEPT !.g[g].type = "DELETED"]

\* case tREF
NormalizeRef(S, g) ==
  LET c == Kids(S, g)[1] IN
  IF ~S.g[g].det THEN RedirectTo(S, g, c)
  ELSE IF S.g[c].det /\ S.g[c].val # S.g[g].val THEN Unsat(S)
  ELSE RedirectTo(AddInPstack(SetDet(S, c, S.g[g].val), c), g, c)

\* case tNOT
NormalizeNot(S, g) ==
  LET c == Kids(S, g)[1] IN
  IF S.g[g].det
  THEN IF S.g[c].det /\ S.g[c].val = S.g[g].val THEN Unsat(S)
       ELSE TransformIntoConstant(
              AddInPstack(SetDet(S, c, ~S.g[g].val), c), g, S.g[g].val)
  ELSE IF S.g[c].type = "NOT" THEN RedirectTo(S, g, Kids(S, c)[1])
  ELSE S

\* case tOR, case tAND: Unary ANDs and ORs are removed
NormalizeOrAnd(S, g) ==
  IF CountChildren(S, g) = 1
  THEN AddInPstack([S EXCEPT !.g[g].type = "REF"], g) ELSE S

\* g := EQUIV(c1,...,cn) --> g := OR(AND(c1,...,cn),AND(~c1,...,~cn))
NormalizeEquivNary(S, g) ==
  LET ks == Kids(S, g)
      n1 == NextIndex(S)
      S1 == AddInPstack(AddChildren(InstallGate(S, NewGate("AND")), n1, ks), n1)
      n2 == NextIndex(S1)
      S2 == AddInPstack(InstallGate(S1, NewGate("AND")), n2)
      S3 == FoldL(LAMBDA T, c : LET n == NextIndex(T)
                                IN AddChild(AddInPstack(NewNot(T, c), n), n2, n),
                  S2, ks)
      S4 == RemoveAllChildren([S3 EXCEPT !.g[g].type = "OR"], g)
  IN AddChildren(S4, g, <<n1, n2>>)

\* case tEQUIV
NormalizeEquiv(S, g) ==
  IF CountChildren(S, g) = 1
  THEN IF S.g[g].det /\ ~S.g[g].val THEN Unsat(S)
       ELSE TransformIntoConstant(S, g, TRUE)
  ELSE IF CountChildren(S, g) = 2 THEN S
  ELSE NormalizeEquivNary(S, g)

\* while(children) { to->add_child(children->child); delete children; }
HandOverChildren(S, g, to) ==
  FoldL(LAMBDA T, id : DelEdge(AddChild(T, to, T.e[id].c), id), S, S.g[g].ch)

\* case tEVEN
NormalizeEven(S, g) ==
  IF CountChildren(S, g) = 1
  THEN AddInPstack([S EXCEPT !.g[g].type = "NOT"], g)
  ELSE IF CountChildren(S, g) = 2 THEN S
  ELSE LET n == NextIndex(S)
           S1 == AddInPstack(InstallGate(S, NewGate("ODD")), n)
           S2 == HandOverChildren(S1, g, n)
       IN AddInPstack(AddChild([S2 EXCEPT !.g[g].type = "NOT"], g, n), g)

\* case tODD
NormalizeOdd(S, g) ==
  IF CountChildren(S, g) = 1
  THEN AddInPstack([S EXCEPT !.g[g].type = "REF"], g)
  ELSE IF CountChildren(S, g) = 2 THEN S
  ELSE LET n == NextIndex(S)
           c1 == Kids(S, g)[1]
           S1 == AddInPstack(InstallGate(S, NewGate("ODD")), n)
           S2 == HandOverChildren(DelEdge(S1, S1.g[g].ch[1]), g, n)
       IN AddChildren(S2, g, <<n, c1>>)

\* a new ATLEAST gate with lower bound l is installed and pushed
NewAtleast(S, l) ==
  LET n == NextIndex(S)
  IN AddInPstack(InstallGate(S, [NewGate("ATLEAST") EXCEPT !.tmin = l]), n)

\* [l,u](g1,...,gn) taken for (>= l)(g1,...,gn)
ThresholdAsAtleast(S, g) == AddInPstack([S EXCEPT !.g[g].type = "ATLEAST"], g)

\* the sharing decomposition of a THRESHOLD gate with at least two children
ThresholdDecompose(S, g) ==
  LET tmin == S.g[g].tmin
      tmax == S.g[g].tmax
      n == NextIndex(S)
  IN IF tmin = 0
     THEN \* [0,k](g1,...,gn) = ~(>= k+1)(g1,...,gn)
          LET S1 == MoveChildren(NewAtleast(S, tmax + 1), g, n)
          IN AddInPstack([AddChild(S1, g, n) EXCEPT !.g[g].type = "NOT"], g)
     ELSE IF tmax = CountChildren(S, g)
     THEN \* [l,n](g1,...gn) = (>= l)(g1,...,gn)
          AddInPstack([S EXCEPT !.g[g].type = "ATLEAST"], g)
     ELSE \* [l,u](g1,...,gn) = (>= l)(g1,...,gn) & ~(>= u+1)(g1,...,gn)
          LET S1 == AddChildren(NewAtleast(S, tmin), n, Kids(S, g))
              n2 == NextIndex(S1)
              S2 == MoveChildren(NewAtleast(S1, tmax + 1), g, n2)
              n3 == NextIndex(S2)
              S3 == AddInPstack(NewNot(S2, n2), n3)
          IN [AddChildren(S3, g, <<n, n3>>) EXCEPT !.g[g].type = "AND"]

\* the test that selects the adder construction
UsesAdder(tmin, tmax, n) ==
  ~(tmax <= 2 \/ tmin + 2 >= n \/ (tmin <= 2 /\ tmax + 2 >= n))

\* case tTHRESHOLD.  The adder construction is built by the circuit store
\* for gates with six or more children; such gates are outside MaxKids.
NormalizeThreshold(S, g) ==
  LET n == CountChildren(S, g)
      T == IF S.g[g].tmax > n THEN [S EXCEPT !.g[g].tmax = n] ELSE S
      tmin == T.g[g].tmin
      tmax == T.g[g].tmax
      Become(t) == AddInPstack([T EXCEPT !.g[g].type = t, !.g[g].tmin = 0,
                                         !.g[g].tmax = 0], g)
  IN IF S.g[g].tmin > n THEN NormConstant(S, g, FALSE)
     ELSE IF tmin > tmax THEN NormConstant(T, g, FALSE)
     ELSE IF n = 1
     THEN IF tmin = 0 /\ tmax = 1 THEN NormConstant(T, g, TRUE)
          ELSE IF tmin = 0 /\ tmax = 0 THEN Become("NOT")
          ELSE IF tmin = 1 /\ tmax = 1 THEN Become("REF")
          ELSE Abort(T)
     ELSE IF tmin = 0 /\ tmax = n THEN NormConstant(T, g, TRUE)
     ELSE IF tmin = 1 /\ tmax = n THEN Become("OR")
     ELSE IF UsesAdder(tmin, tmax, n) THEN Abort(T)
     ELSE ThresholdDecompose(T, g)

\* the order in which the rewriting of (>= l)(g1,...,gn) visits the pairs (i,j)
AtleastPlan(l, n) ==
  LET RECURSIVE go(_,_,_)
      go(todo, done, order) ==
        IF todo = <<>> THEN order
        ELSE LET pr == Head(todo)
                 i == pr[1]
                 j == pr[2]
                 push == IF i = j
                         THEN IF i = 1 THEN <<>> ELSE << <<i - 1, j - 1>> >>
                         ELSE IF i = 1 THEN << <<i, j - 1>> >>
                         ELSE << <<i, j - 1>>, <<i - 1, j - 1>> >>
             IN IF pr \in done THEN go(Tail(todo), done, order)
                ELSE go(push \o Tail(todo), done \cup {pr}, Append(order, pr))
  IN go(<< <<l, n>> >>, {}, <<>>)

\* the gates the rewriting installs, in the order of their installation:
\* the array gate of a visited pair and, for 1 < i < j, its new AND gate
AtleastInstalls(l, n) ==
  FoldL(LAMBDA acc, pr :
          acc \o (IF pr = <<l, n>> THEN <<>> ELSE << <<"A", pr>> >>)
              \o (IF pr[1] # pr[2] /\ pr[1] # 1 THEN << <<"N", pr>> >>
                  ELSE <<>>),
        <<>>, AtleastPlan(l, n))

\* (>= l)(g1,...,gn) taken for AND(g1,...,gn)
AtleastAsAnd(S, g) == AddInPstack([S EXCEPT !.g[g].type = "AND"], g)

\* (>= l)(g1,...,gn) == (g1 & (>= l-1)(g2,...,gn)) | (>= l)(g2,...,gn)
\* with shared subresults.  The gates of AtleastInstalls are entered in the
\* store first, so that array[i][j] can be linked before its turn comes.
AtleastRewrite(S, g) ==
  LET l == S.g[g].tmin
      childs == Kids(S, g)
      n == CountChildren(S, g)
      base == Len(S.g)
      \* array[i][j], or its new AND gate, among the installed gates ins
      Ix(ins, kind, pr) ==
        IF kind = "A" /\ pr = <<l, n>> THEN g
        ELSE base + CHOOSE k \in 1..Len(ins) : ins[k] = <<kind, pr>>
      Shape(T, a, t, cs) == AddChildren([T EXCEPT !.g[a].type = t], a, cs)
      Visit(T, a) ==
        IF a # g THEN AddInPstack([T EXCEPT !.g[a].temp = 1], a)
        ELSE [T EXCEPT !.g[a].temp = 1]
      Fill(T, a, m, prevs, i, j) ==
        IF i = j
        THEN IF i = 1 THEN Shape(T, a, "REF", <<childs[j]>>)
             ELSE Shape(T, a, "AND", <<childs[j], prevs[2]>>)
        ELSE IF i = 1 THEN Shape(T, a, "OR", <<childs[j], prevs[1]>>)
        ELSE Shape(AddInPstack(
                     AddChildren([T EXCEPT !.g[m].type = "AND"], m,
                                 <<prevs[2], childs[j]>>), m),
                   a, "OR", <<m, prevs[1]>>)
      Step(ins, T, pr) ==
        Fill(Visit(T, Ix(ins, "A", pr)), Ix(ins, "A", pr),
             IF pr[1] # pr[2] /\ pr[1] # 1 THEN Ix(ins, "N", pr) ELSE 0,
             << IF pr[1] # pr[2] THEN Ix(ins, "A", <<pr[1], pr[2] - 1>>) ELSE 0,
                IF pr[1] # 1 THEN Ix(ins, "A", <<pr[1] - 1, pr[2] - 1>>) ELSE 0 >>,
             pr[1], pr[2])
  IN Then(AtleastInstalls(l, n), LAMBDA ins :
       FoldL(LAMBDA T, pr : Step(ins, T, pr),
             [FoldL(LAMBDA T, x : InstallGate(T, NewGate("UNDEF")),
                    RemoveAllChildren(S, g), ins) EXCEPT !.g[g].temp = 0],
             AtleastPlan(l, n)))

\* case tATLEAST
NormalizeAtleast(S, g) ==
  LET n == CountChildren(S, g)
      tmin == S.g[g].tmin
      Become(t) == AddInPstack([S EXCEPT !.g[g].type = t, !.g[g].tmin = 0], g)
  IN IF tmin = 0 THEN NormConstant(S, g, TRUE)
     ELSE IF tmin > n THEN NormConstant(S, g, FALSE)
     ELSE IF tmin = 1 THEN Become("OR")
     ELSE IF tmin = n THEN Become("AND")
     ELSE AtleastRewrite(S, g)

\* Gate::cnf_normalize
GateCnfNormalize(S, g) ==
  LET t == S.g[g].type IN
  CASE t = "DELETED" -> S
    [] t \in {"FALSE", "TRUE"} -> NormalizeConst(S, g)
    [] t \in {"VAR", "ITE"} -> S
    [] t = "REF" -> NormalizeRef(S, g)
    [] t = "NOT" -> NormalizeNot(S, g)
    [] t \in {"OR", "AND"} -> NormalizeOrAnd(S, g)
    [] t = "EQUIV" -> NormalizeEquiv(S, g)
    [] t = "THRESHOLD" -> NormalizeThreshold(S, g)
    [] t = "ATLEAST" -> NormalizeAtleast(S, g)
    [] t = "EVEN" -> NormalizeEven(S, g)
    [] t = "ODD" -> NormalizeOdd(S, g)
    [] OTHER -> Abort(S)

(***************************************************************************)
(* Structural sharing                                                      *)
(***************************************************************************)

\* Gate::is_commutative
IsCommutative(t) == t \in {"OR", "AND", "EQUIV", "ODD", "EVEN", "THRESHOLD"}

\* a sequence of gate indices in ascending order (a stable sort by index)
SortByIndex(ks) ==
  LET RECURSIVE ins(_,_)
      ins(sorted, x) ==
        IF sorted = <<>> THEN <<x>>
        ELSE IF x < Head(sorted) THEN <<x>> \o sorted
        ELSE <<Head(sorted)>> \o ins(Tail(sorted), x)
  IN FoldL(ins, <<>>, ks)

\* Gate::sort_children: the sorted children are written back edge by edge
SortChildren(S, g) ==
  LET ks == Kids(S, g)
      es == S.g[g].ch
      sorted == SortByIndex(ks)
  IN IF \A i \in 1..(Len(ks) - 1) : ks[i] <= ks[i + 1] THEN S
     ELSE FoldL(LAMBDA T, i : ChangeChild(T, es[i], sorted[i]), S,
                [i \in 1..Len(es) |-> i])

\* a comparison that finds no gate equal to another gate
SameGateNever(S, a, b) == a = b

\* Gate::comp returns 0
SameGate(S, a, b) ==
  \/ a = b
  \/ /\ S.g[a].type = S.g[b].type
     /\ S.g[a].type # "VAR"
     /\ \/ S.g[a].type \in {"TRUE", "FALSE"}
        \/ /\ S.g[a].type = "THRESHOLD" =>
                S.g[a].tmin = S.g[b].tmin /\ S.g[a].tmax = S.g[b].tmax
           /\ S.g[a].type = "ATLEAST" => S.g[a].tmin = S.g[b].tmin
           /\ Kids(S, a) = Kids(S, b)

\* Gate::share; st holds the circuit, the hash table, the cache and the
\* value returned.  The value returned by a child is not looked at.
RECURSIVE GateShare(_,_)
GateShare(st, g) ==
  LET \* the gate g is replaced by the equal gate ex found in the hash table
      Replace(S1, ex) ==
        LET S2 == IF S1.g[g].det THEN SetDet(S1, ex, S1.g[g].val) ELSE S1
            S3 == MoveHandles(MoveParents(RemoveAllChildren(S2, g), g, ex),
                              g, ex)
        IN SetChanged([S3 EXCEPT !.g[g].type = "DELETED"])
      Lookup(st1, S1, ex) ==
        IF ex = g
        THEN [S |-> S1, ht |-> st1.ht \cup {ex}, cache |-> st1.cache \cup {g},
              ok |-> TRUE]
        ELSE IF S1.g[g].det /\ S1.g[ex].det /\ S1.g[g].val # S1.g[ex].val
        THEN [S |-> S1, ht |-> st1.ht, cache |-> st1.cache \cup {g},
              ok |-> FALSE]
        ELSE [S |-> Replace(S1, ex), ht |-> st1.ht,
              cache |-> st1.cache \cup {g}, ok |-> TRUE]
      Same(st1, S1) == {h \in st1.ht : SameGate(S1, h, g)}
  IN IF st.S.g[g].type \in {"DELETED", "VAR"} \/ g \in st.cache
     THEN [st EXCEPT !.ok = TRUE]
     ELSE Then(FoldL(LAMBDA a, id : GateShare(a, a.S.e[id].c), st,
                     st.S.g[g].ch), LAMBDA st1 :
       Then(IF IsCommutative(st.S.g[g].type) THEN SortChildren(st1.S, g)
            ELSE st1.S, LAMBDA S1 :
         Lookup(st1, S1, IF Same(st1, S1) = {} THEN g
                         ELSE CHOOSE h \in Same(st1, S1) : TRUE)))

\* BC::share: every gate of the store is shared, in store order
BCShare(S) ==
  LET RECURSIVE go(_,_)
      go(st, g) ==
        IF g > Len(st.S.g) THEN st.S
        ELSE Then(GateShare(st, g), LAMBDA st1 :
               IF st1.ok THEN go(st1, g + 1) ELSE Unsat(st1.S))
  IN go([S |-> S, ht |-> {}, cache |-> {}, ok |-> TRUE], 1)

(***************************************************************************)
(* The gate chain, justification, cone of influence, evaluation            *)
(***************************************************************************)

\* every gate of the store, the DELETED ones included
WholeStore(S) == SelectSeq([i \in 1..Len(S.g) |-> i], LAMBDA i : TRUE)

\* for(gate = first_gate; gate; gate = gate->next): the gates of the store in
\* the order of their installation; gates marked DELETED are passed over
Chain(S) == SelectSeq([i \in 1..Len(S.g) |-> i],
                      LAMBDA i : S.g[i].type # "DELETED")

\* BC::reset_temp_fields
ResetTempFields(S, v) == SetTemps(S, Range(Chain(S)), v)

\* Gate::count_child_info
CountChildInfo(S, g) ==
  LET ks == Kids(S, g)
      is == 1..Len(ks)
  IN [t |-> Cardinality({i \in is : S.g[ks[i]].det /\ S.g[ks[i]].val}),
      f |-> Cardinality({i \in is : S.g[ks[i]].det /\ ~S.g[ks[i]].val}),
      u |-> Cardinality({i \in is : ~S.g[ks[i]].det})]

\* the child of g at place i that is determined to the value v
ChildIs(S, g, i, v) ==
  LET c == Kids(S, g)[i] IN S.g[c].det /\ S.g[c].val = v

\* Gate::is_justified reaches the default case: internal_error
JustifiedFails(S, g) ==
  /\ S.g[g].det
  /\ S.g[g].type \notin {"FALSE", "TRUE", "VAR", "NOT", "EQUIV", "OR", "AND",
                         "ODD", "EVEN", "ITE", "THRESHOLD", "ATLEAST"}

\* every determined gate counts as justified
IsDetermined(S, g) == S.g[g].det

\* Gate::is_justified
IsJustified(S, g) ==
  LET t == S.g[g].type
      v == S.g[g].val
  IN Then(CountChildInfo(S, g), LAMBDA c : LET n == c.t + c.f + c.u IN
     /\ S.g[g].det
     /\ CASE t \in {"FALSE", "TRUE", "VAR"} -> TRUE
          [] t = "NOT" -> (v /\ c.f > 0) \/ (~v /\ c.t > 0)
          [] t = "EQUIV" -> IF v THEN n = 1 \/ c.t = n \/ c.f = n
                            ELSE c.t > 0 /\ c.f > 0
          [] t = "OR" -> IF v THEN c.t > 0 ELSE c.f = n
          [] t = "AND" -> IF v THEN c.t = n ELSE c.f > 0
          [] t = "ODD" -> c.t + c.f = n /\ (c.t % 2 = 1) = v
          [] t = "EVEN" -> c.t + c.f = n /\ (c.t % 2 = 0) = v
          [] t = "ITE" ->
               \/ ChildIs(S, g, 1, TRUE) /\ ChildIs(S, g, 2, v)
               \/ ChildIs(S, g, 1, FALSE) /\ ChildIs(S, g, 3, v)
               \/ ChildIs(S, g, 2, v) /\ ChildIs(S, g, 3, v)
          [] t = "THRESHOLD" ->
               IF v THEN S.g[g].tmin <= c.t /\ n - c.f <= S.g[g].tmax
               ELSE c.t > S.g[g].tmax \/ n - c.f < S.g[g].tmin
          [] t = "ATLEAST" -> IF v THEN c.t >= S.g[g].tmin
                              ELSE n - c.f < S.g[g].tmin
          [] OTHER -> FALSE)

\* Gate::mark_coi; st = [S, n] holds the circuit and the counter
RECURSIVE MarkCoi(_,_)
MarkCoi(st, g) ==
  IF st.S.g[g].temp >= 0 THEN st
  ELSE FoldL(MarkCoi, [S |-> [st.S EXCEPT !.g[g].temp = st.n], n |-> st.n + 1],
             Kids(st.S, g))

\* no gate is evaluated
EvaluateNothing(S, g) == S

\* Gate::evaluate; the result is the circuit, res = "error" when the
\* evaluation fails or meets a gate type it does not know
RECURSIVE Evaluate(_,_)
Evaluate(S, g) ==
  IF S.res # "ok" \/ S.g[g].det THEN S
  ELSE IfOk(FoldL(Evaluate, S, Kids(S, g)), LAMBDA T :
       Then(CountChildInfo(T, g), LAMBDA c :
       LET t == T.g[g].type
           kv(i) == T.g[Kids(T, g)[i]].val
           Value(v) == SetDet(T, g, v)
       IN      CASE t = "VAR" -> Abort(T)
                 [] t = "FALSE" -> Value(FALSE)
                 [] t = "TRUE" -> Value(TRUE)
                 [] t = "REF" -> Value(c.t = 1)
                 [] t = "NOT" -> Value(c.t = 0)
                 [] t = "EQUIV" -> Value(~(c.t > 0 /\ c.f > 0))
                 [] t = "OR" -> Value(c.t > 0)
                 [] t = "AND" -> Value(c.f = 0)
                 [] t = "ODD" -> Value(c.t % 2 = 1)
                 [] t = "EVEN" -> Value(c.t % 2 = 0)
                 [] t = "ITE" -> Value(IF kv(1) THEN kv(2) ELSE kv(3))
                 [] t = "THRESHOLD" ->
                      Value(T.g[g].tmin <= c.t /\ c.t <= T.g[g].tmax)
                 [] t = "ATLEAST" -> Value(T.g[g].tmin <= c.t)
                 [] OTHER -> Abort(T)))

\* Gate::check_consistency aborts: a failed assert or the default case
ConsistencyFails(S, g) ==
  /\ S.g[g].det
  /\ \/ S.g[g].type \notin {"FALSE", "TRUE", "VAR", "NOT", "REF", "EQUIV",
                            "OR", "AND", "ODD", "EVEN", "ITE", "THRESHOLD"}
     \/ /\ S.g[g].type = "THRESHOLD"
        /\ \/ S.g[g].tmin > S.g[g].tmax
           \/ S.g[g].tmax > CountChildren(S, g)

\* Gate::check_consistency
GateCheckConsistency(S, g) ==
  LET t == S.g[g].type
      v == S.g[g].val
  IN Then(CountChildInfo(S, g), LAMBDA c : LET n == c.t + c.f + c.u IN
     \/ ~S.g[g].det
     \/ CASE t = "FALSE" -> ~v
          [] t = "TRUE" -> v
          [] t = "VAR" -> TRUE
          [] t = "NOT" -> IF c.t = 1 THEN ~v ELSE IF c.f = 1 THEN v ELSE TRUE
          [] t = "REF" -> IF c.t = 1 THEN v ELSE IF c.f = 1 THEN ~v ELSE TRUE
          [] t = "EQUIV" -> IF v THEN ~(c.t > 0 /\ c.f > 0)
                            ELSE ~(c.t = n \/ c.f = n)
          [] t = "OR" -> IF v THEN c.f # n ELSE c.t = 0
          [] t = "AND" -> IF v THEN c.f = 0 ELSE c.t # n
          [] t = "ODD" -> c.u = 0 => (v = (c.t % 2 = 1))
          [] t = "EVEN" -> c.u = 0 => (v = (c.t % 2 = 0))
          [] t = "ITE" ->
               ~ \/ ChildIs(S, g, 1, TRUE) /\ ChildIs(S, g, 2, ~v)
                 \/ ChildIs(S, g, 1, FALSE) /\ ChildIs(S, g, 3, ~v)
                 \/ ChildIs(S, g, 2, ~v) /\ ChildIs(S, g, 3, ~v)
          [] t = "THRESHOLD" ->
               IF v THEN ~(c.t > S.g[g].tmax \/ n - c.f < S.g[g].tmin)
               ELSE ~(c.t >= S.g[g].tmin /\ n - c.f <= S.g[g].tmax)
          [] OTHER -> FALSE)

\* BC::check_consistency: every gate of the chain is consistent
CheckConsistency(S) == \A g \in Range(Chain(S)) : GateCheckConsistency(S, g)

(***************************************************************************)
(* Polarities and clauses                                                  *)
(***************************************************************************)

\* no polarity is recorded
MirPropagateNothing(S, g, polarity) == S

\* the polarity is recorded in the gate and not passed to its children
MirMarkOnly(S, g, polarity) ==
  IF polarity THEN [S EXCEPT !.g[g].mpos = TRUE]
  ELSE [S EXCEPT !.g[g].mneg = TRUE]

\* Gate::mir_propagate_polarity
RECURSIVE MirPropagatePolarity(_,_,_)
MirPropagatePolarity(S, g, polarity) ==
  LET t == S.g[g].type
      ks == Kids(S, g)
      S1 == IF polarity THEN [S EXCEPT !.g[g].mpos = TRUE]
            ELSE [S EXCEPT !.g[g].mneg = TRUE]
      \* the calls made on the children: pairs of a child and a polarity
      One(p) == [i \in 1..Len(ks) |-> <<ks[i], p>>]
      Both == FoldL(LAMBDA acc, k : acc \o << <<k, polarity>>, <<k, ~polarity>> >>,
                    <<>>, ks)
      Calls(c) ==
        CASE t \in {"FALSE", "TRUE", "VAR"} -> <<>>
          [] t = "NOT" -> One(~polarity)
          [] t \in {"OR", "AND", "ATLEAST"} -> One(polarity)
          [] t = "EQUIV" -> Both
          [] t = "ODD" ->
               IF c.u = 1 THEN One(polarity # (c.t % 2 = 1)) ELSE Both
          [] t = "EVEN" ->
               IF c.u = 1 THEN One(polarity # (c.t % 2 = 0)) ELSE Both
          [] t = "ITE" ->
               << <<ks[1], polarity>>, <<ks[1], ~polarity>>,
                  <<ks[2], polarity>>, <<ks[3], polarity>> >>
          [] t = "THRESHOLD" ->
               IF c.t >= S.g[g].tmin THEN One(~polarity)
               ELSE IF c.t + c.u <= S.g[g].tmax THEN One(polarity)
               ELSE Both
  IN IF S.res # "ok" THEN S
     ELSE IF S.g[g].det /\ S.g[g].val # polarity THEN S
     ELSE IF JustifiedFails(S, g) THEN Abort(S)
     ELSE IF S.g[g].det /\ IsJustified(S, g) THEN S
     ELSE IF (polarity /\ S.g[g].mpos) \/ (~polarity /\ S.g[g].mneg) THEN S
     ELSE IF t \notin {"FALSE", "TRUE", "VAR", "NOT", "OR", "AND", "ATLEAST",
                       "EQUIV", "ODD", "EVEN", "ITE", "THRESHOLD"}
     THEN Abort(S1)
     ELSE FoldL(LAMBDA T, x : MirPropagatePolarity(T, x[1], x[2]), S1,
                Calls(CountChildInfo(S, g)))

\* BC::mir_compute_polarity_information: the polarities are cleared and every
\* determined gate of the chain propagates the polarity of its value
MirComputePolarityInformation(S) ==
  LET S0 == MapGates(S, LAMBDA r, i : [r EXCEPT !.mpos = FALSE,
                                                !.mneg = FALSE])
  IN FoldL(LAMBDA T, g : IF T.g[g].det
                         THEN MirPropagatePolarity(T, g, T.g[g].val) ELSE T,
           S0, Chain(S))

\* the variable of the child c whatever its type is
LitOfVariable(S, c, notless) == S.g[c].temp

\* the literal that stands for the child c in the clauses of its parent
Lit(S, c, notless) ==
  IF notless /\ S.g[c].type = "NOT" THEN -S.g[Kids(S, c)[1]].temp
  ELSE S.g[c].temp

\* no clause "g -> ..." at all
PosClausesNone(S, g, notless) == <<>>

\* the clauses "g -> ...", in the order in which they are pushed back
PosClauses(S, g, notless) ==
  LET t == S.g[g].type
      v == S.g[g].temp
      ks == Kids(S, g)
  IN Then([i \in 1..Len(ks) |-> Lit(S, ks[i], notless)], LAMBDA l :
     CASE t = "REF" -> << <<-v, l[1]>> >>
       [] t = "NOT" -> IF notless THEN <<>> ELSE << <<-v, -l[1]>> >>
       [] t = "OR" -> << <<-v>> \o l >>
       [] t = "AND" -> [i \in 1..Len(ks) |-> <<-v, l[i]>>]
       [] t \in {"EQUIV", "EVEN"} -> << <<-v, -l[1], l[2]>>, <<-v, l[1], -l[2]>> >>
       [] t = "ODD" -> << <<-v, -l[1], -l[2]>>, <<-v, l[1], l[2]>> >>
       [] t = "ITE" -> << <<-v, -l[1], l[2]>>, <<-v, l[1], l[3]>> >>
       [] OTHER -> <<>>)

\* no clause "~g -> ..." at all
NegClausesNone(S, g, notless) == <<>>

\* the clauses "~g -> ...", in the order in which they are pushed back
NegClauses(S, g, notless) ==
  LET t == S.g[g].type
      v == S.g[g].temp
      ks == Kids(S, g)
  IN Then([i \in 1..Len(ks) |-> Lit(S, ks[i], notless)], LAMBDA l :
     CASE t = "REF" -> << <<v, -l[1]>> >>
       [] t = "NOT" -> IF notless THEN <<>> ELSE << <<v, l[1]>> >>
       [] t = "OR" -> [i \in 1..Len(ks) |-> <<v, -l[i]>>]
       [] t = "AND" -> << <<v>> \o [i \in 1..Len(ks) |-> -l[i]] >>
       [] t \in {"EQUIV", "EVEN"} -> << <<v, -l[1], -l[2]>>, <<v, l[1], l[2]>> >>
       [] t = "ODD" -> << <<v, -l[1], l[2]>>, <<v, l[1], -l[2]>> >>
       [] t = "ITE" -> << <<v, -l[1], -l[2]>>, <<v, l[1], -l[3]>> >>
       [] OTHER -> <<>>)

\* cnf_get_clauses and cnf_get_clauses_polarity call internal_error
ClausesFail(S, g, notless) ==
  LET t == S.g[g].type IN
  \/ t \notin {"FALSE", "TRUE", "VAR", "REF", "NOT", "OR", "AND", "EQUIV",
               "EVEN", "ODD", "ITE"}
  \/ t = "REF" /\ notless
  \/ t = "NOT" /\ notless
       /\ (S.g[g].det \/ S.g[Kids(S, g)[1]].type = "NOT")
  \/ t \in {"EQUIV", "EVEN", "ODD"} /\ CountChildren(S, g) # 2

\* Gate::cnf_get_clauses
CnfGetClauses(S, g, notless) ==
  IF S.g[g].type = "AND"
  THEN NegClauses(S, g, notless) \o PosClauses(S, g, notless)
  ELSE PosClauses(S, g, notless) \o NegClauses(S, g, notless)

\* no clause whatever the polarities are
CnfGetClausesPolarityNone(S, g, notless) == <<>>

\* Gate::cnf_get_clauses_polarity
CnfGetClausesPolarity(S, g, notless) ==
  (IF S.g[g].mpos THEN PosClauses(S, g, notless) ELSE <<>>)
    \o (IF S.g[g].mneg THEN NegClauses(S, g, notless) ELSE <<>>)

\* Gate::cnf_count_clauses
CnfCountClauses(S, g, notless) ==
  LET t == S.g[g].type IN
  CASE t \in {"FALSE", "TRUE", "VAR"} -> 0
    [] t \in {"REF", "NOT"} -> IF notless THEN 0 ELSE 2
    [] t \in {"OR", "AND"} -> CountChildren(S, g) + 1
    [] OTHER -> 4

(***************************************************************************)
(* Input circuits                                                          *)
(***************************************************************************)

\* the largest number of children of a gate of an input circuit
MaxKids == 3

\* the number of seeds tried with -permute_cnf
NumSeeds == 1

\* a gate name is its sequence of characters
Nm(c) == <<c>>

\* an input (VAR) gate named c
V(c) == [type |-> "VAR", kids |-> <<>>, names |-> <<Nm(c)>>,
         tmin |-> 0, tmax |-> 0]

\* a gate of type t over the gates ks with the names ns
G(t, ks, ns) == [type |-> t, kids |-> ks, names |-> ns, tmin |-> 0, tmax |-> 0]

\* a cardinality gate [l,u] over the gates ks with the names ns
Th(l, u, ks, ns) ==
  [type |-> "THRESHOLD", kids |-> ks, names |-> ns, tmin |-> l, tmax |-> u]

\* a circuit: its gates in the order of their installation and the gates
\* assigned to true and to false
Circuit(gs, at, af) == [gates |-> gs, at |-> at, af |-> af]

\* the input gates x1,...,xn
Vars(n) == [i \in 1..n |-> V(<<"x", "y", "z", "u", "t">>[i])]

\* top := t(x1,...,xn) assigned to v
Single(t, n, v) ==
  Circuit(Vars(n) \o <<G(t, [i \in 1..n |-> i], <<Nm("r")>>)>>,
          IF v THEN <<n + 1>> ELSE <<>>, IF v THEN <<>> ELSE <<n + 1>>)

\* top := [l,u](x1,...,xn) assigned to v
Card(l, u, n, v) ==
  Circuit(Vars(n) \o <<Th(l, u, [i \in 1..n |-> i], <<Nm("r")>>)>>,
          IF v THEN <<n + 1>> ELSE <<>>, IF v THEN <<>> ELSE <<n + 1>>)

\* r := t1(m, w) assigned to v, where m := t2(x1,...,xn) has a name of its own
\* or an internal one and is installed before or after r
Nested(t1, t2, n, v, named, first) ==
  LET m == G(t2, [i \in 1..n |-> i],
             IF named THEN <<Nm("m")>> ELSE << <<"_", "m">> >>)
      mi == IF first THEN n + 2 ELSE n + 3
      ri == IF first THEN n + 3 ELSE n + 2
      r == G(t1, <<mi, n + 1>>, <<Nm("r")>>)
  IN Circuit(Vars(n) \o <<V("w")>> \o (IF first THEN <<m, r>> ELSE <<r, m>>),
             IF v THEN <<ri>> ELSE <<>>, IF v THEN <<>> ELSE <<ri>>)

\* r := OR(p, w) assigned to true with p := NOT(t), t := t2(x1,...,xn);
\* p is installed before or after t
UnderNot(t2, n, first) ==
  LET ti == IF first THEN n + 3 ELSE n + 2
      pi == IF first THEN n + 2 ELSE n + 3
      t == G(t2, [i \in 1..n |-> i], <<>>)
      p == G("NOT", <<ti>>, <<Nm("p")>>)
      r == G("OR", <<pi, n + 1>>, <<Nm("r")>>)
  IN Circuit(Vars(n) \o <<V("w")>> \o (IF first THEN <<p, t>> ELSE <<t, p>>)
               \o <<r>>, <<n + 4>>, <<>>)

\* r := ITE(a, b, c) over the input gates x, y, z, assigned to v
Ite(ks, v) ==
  Circuit(Vars(3) \o <<G("ITE", ks, <<Nm("r")>>)>>,
          IF v THEN <<4>> ELSE <<>>, IF v THEN <<>> ELSE <<4>>)

\* r := t1(x, y) assigned to true and s := t2(x, y) assigned to v
Pair(t1, t2, v) ==
  Circuit(Vars(2) \o <<G(t1, <<1, 2>>, <<Nm("r")>>),
                       G(t2, <<1, 2>>, <<Nm("s")>>)>>,
          <<3>> \o (IF v THEN <<4>> ELSE <<>>), IF v THEN <<>> ELSE <<4>>)

\* r := t(x, y) assigned to v with the input gate x assigned to vx
Forced(t, v, vx) ==
  Circuit(Vars(2) \o <<G(t, <<1, 2>>, <<Nm("r")>>)>>,
          (IF v THEN <<3>> ELSE <<>>) \o (IF vx THEN <<1>> ELSE <<>>),
          (IF v THEN <<>> ELSE <<3>>) \o (IF vx THEN <<>> ELSE <<1>>))

\* r := t(ks) or r := [l,u](ks) assigned to v, where ks are gates among the
\* input gates x, y, z and n := NOT(x)
Shape(t, l, u, ks, v) ==
  Circuit(Vars(3) \o <<G("NOT", <<1>>, <<Nm("n")>>),
                       [G(t, ks, <<Nm("r")>>) EXCEPT !.tmin = l, !.tmax = u]>>,
          IF v THEN <<5>> ELSE <<>>, IF v THEN <<>> ELSE <<5>>)

\* r := t1(ks) assigned to v over the input gate x (gate 1) and s := t2(x, y)
\* (gate 3), which is also used by q := NOT(s): a child of r depends on the other
Chained(t1, t2, ks, v) ==
  Circuit(Vars(2) \o <<G(t2, <<1, 2>>, <<Nm("s")>>),
                       G("NOT", <<3>>, <<Nm("q")>>), G(t1, ks, <<Nm("r")>>)>>,
          IF v THEN <<5>> ELSE <<>>, IF v THEN <<>> ELSE <<5>>)

\* a := t(x, y) assigned to true, r := NOT(b) and b := t(x, y) assigned to v:
\* two equal gates, the second one installed after its parent
Twins(t, v) ==
  Circuit(Vars(2) \o <<G(t, <<1, 2>>, <<Nm("a")>>), G("NOT", <<5>>, <<Nm("r")>>),
                       G(t, <<1, 2>>, <<Nm("b")>>)>>,
          <<3>> \o (IF v THEN <<5>> ELSE <<>>), IF v THEN <<>> ELSE <<5>>)

\* a := AND(ks) over the input gates x, y, z and t := [l,u](x, y, z) assigned
\* to true; a is assigned to true before t if v, and is not assigned if not
AndUnder(ks, l, u, v) ==
  Circuit(Vars(3) \o <<G("AND", ks, <<Nm("a")>>),
                       Th(l, u, <<1, 2, 3>>, <<Nm("t")>>)>>,
          IF v THEN <<4, 5>> ELSE <<5>>, <<>>)

\* r := EQUIV(ks) assigned to true over s := OR(x, y) (gate 3), u := AND(s, y)
\* (gate 4), which depends on s, and w := ODD(x, y) (gate 5), which depends
\* on neither; q := NOT(u) and p := NOT(w) are parents of u and w besides r
Lattice(ks) ==
  Circuit(Vars(2) \o <<G("OR", <<1, 2>>, <<Nm("s")>>),
                       G("AND", <<3, 2>>, <<Nm("u")>>),
                       G("ODD", <<1, 2>>, <<Nm("w")>>),
                       G("NOT", <<4>>, <<Nm("q")>>),
                       G("NOT", <<5>>, <<Nm("p")>>),
                       G("EQUIV", ks, <<Nm("r")>>)>>,
          <<8>>, <<>>)

\* r := ODD(x, s) over s := OR(ko), where ko are gates among the input gates
\* x and y; r is installed before or after s, and no gate is assigned
Within(ko, first) ==
  LET si == IF first THEN 4 ELSE 3
      s == G("OR", ko, <<>>)
      r == G("ODD", <<1, si>>, <<Nm("r")>>)
  IN Circuit(Vars(2) \o (IF first THEN <<r, s>> ELSE <<s, r>>), <<>>, <<>>)

\* r := [l,u](ks) over the input gates x and y, n := NOT(x) (gate 3) and
\* m := NOT(n) (gate 4); r is assigned to true if v, and is not assigned if not
Negations(l, u, ks, v) ==
  Circuit(Vars(2) \o <<G("NOT", <<1>>, <<Nm("n")>>),
                       G("NOT", <<3>>, <<Nm("m")>>),
                       Th(l, u, ks, <<Nm("r")>>)>>,
          IF v THEN <<5>> ELSE <<>>, <<>>)

\* the input gate x assigned to true and to false
Conflict == Circuit(Vars(1), <<1>>, <<1>>)

\* r := NOT(x) or r := REF(x) with x assigned to true and r assigned to v
Unary(t, v) ==
  Circuit(Vars(1) \o <<G(t, <<1>>, <<Nm("r")>>)>>,
          <<1>> \o (IF v THEN <<2>> ELSE <<>>), IF v THEN <<>> ELSE <<2>>)

(***************************************************************************)
(* The circuit after parsing                                               *)
(***************************************************************************)

\* the reverse of a sequence
Reverse(seq) == [i \in 1..Len(seq) |-> seq[Len(seq) + 1 - i]]

\* Gate::Gate(t, childs): the children are added from the last to the first
BuildKids(S, c) ==
  FoldL(LAMBDA T, i : AddChildren(T, i, Reverse(c.gates[i].kids)), S,
        [i \in 1..Len(c.gates) |-> i])

\* the circuit store after the input c has been read
Build(c) ==
  LET S0 == [g |-> <<>>, e |-> <<>>, ps |-> <<>>, changed |-> FALSE,
             mti |-> TRUE, res |-> "ok", at |-> c.at, af |-> c.af]
      S1 == FoldL(LAMBDA T, d : InstallGate(T, [NewGate(d.type) EXCEPT
                                                  !.handles = d.names,
                                                  !.tmin = d.tmin,
                                                  !.tmax = d.tmax]),
                  S0, c.gates)
  IN BuildKids(S1, c)

\* BC::force_true, BC::force_false
Force(S, g, v) ==
  IF S.g[g].det /\ S.g[g].val # v THEN Unsat(S)
  ELSE AddInPstack(SetDet(S, g, v), g)

\* BC::remove_underscore_names
RemoveUnderscoreNames(S) ==
  MapGates(S, LAMBDA r, i :
    [r EXCEPT !.handles = SelectSeq(@, LAMBDA nm : Head(nm) # "_")])

\* every gate of the chain is put in the propagation stack
PushAll(S) == FoldL(AddInPstack, S, Chain(S))

\* pop: the top of the propagation stack is taken off and its flag cleared
Pop(S) == [S EXCEPT !.ps = Tail(@), !.g[Head(S.ps)].inps = FALSE]

\* main() continues with the next stage whatever the call returned
AfterAnyResult(T, next) == next

\* where main() continues after a call that returned the store T
After(T, next) ==
  CASE T.res = "unsat" -> "unsat_exit"
    [] T.res = "error" -> "aborted"
    [] OTHER -> next

(***************************************************************************)
(* main(): constraint propagation, simplification, normalisation           *)
(***************************************************************************)

\* assigned_to_true.front() is forced to true
ForceTrue ==
  /\ pc = "force" /\ bc.at # <<>>
  /\ bc' = Force([bc EXCEPT !.at = Tail(@)], Head(bc.at), TRUE)
  /\ pc' = After(bc', "force")
  /\ UNCHANGED <<opts, inp, loc, out>>

\* assigned_to_false.front() is forced to false
ForceFalse ==
  /\ pc = "force" /\ bc.at = <<>> /\ bc.af # <<>>
  /\ bc' = Force([bc EXCEPT !.af = Tail(@)], Head(bc.af), FALSE)
  /\ pc' = After(bc', "force")
  /\ UNCHANGED <<opts, inp, loc, out>>

\* remove_underscore_names(); preserve_all_solutions = opt_preserve_all_solutions
Prepare ==
  /\ pc = "force" /\ bc.at = <<>> /\ bc.af = <<>>
  /\ bc' = [RemoveUnderscoreNames(bc) EXCEPT !.mti = ~opts.all]
  /\ pc' = IF opts.simplify THEN "simplify1" ELSE "share1"
  /\ UNCHANGED <<opts, inp, loc, out>>

\* BC::simplify begins a round: changed = false, every gate is pushed
SimplifyBegin ==
  /\ pc \in {"simplify1", "simplify2"}
  /\ bc' = PushAll([bc EXCEPT !.changed = FALSE])
  /\ pc' = IF pc = "simplify1" THEN "pop1" ELSE "pop2"
  /\ UNCHANGED <<opts, inp, loc, out>>

\* BC::simplify pops a gate and simplifies it
SimplifyGate ==
  /\ pc \in {"pop1", "pop2"} /\ bc.ps # <<>>
  /\ bc' = GateSimplify(Pop(bc), Head(bc.ps))
  /\ pc' = After(bc', pc)
  /\ UNCHANGED <<opts, inp, loc, out>>

\* BC::simplify ends a round: the structure is shared; a round that changed
\* the circuit is followed by another one
SimplifyShare ==
  /\ pc \in {"pop1", "pop2"} /\ bc.ps = <<>>
  /\ bc' = BCShare(bc)
  /\ LET again == IF pc = "pop1" THEN "simplify1" ELSE "simplify2"
         next == IF pc = "pop1" THEN "normalize" ELSE "coi"
     IN pc' = After(bc', IF bc'.changed THEN again ELSE next)
  /\ UNCHANGED <<opts, inp, loc, out>>

\* -nosimplify: circuit->share() takes the place of circuit->simplify()
ShareOnly ==
  /\ pc \in {"share1", "share2"}
  /\ bc' = BCShare(bc)
  /\ pc' = After(bc', IF pc = "share1" THEN "normalize" ELSE "coi")
  /\ UNCHANGED <<opts, inp, loc, out>>

\* BC::cnf_normalize begins: every gate is pushed
NormalizeBegin ==
  /\ pc = "normalize"
  /\ bc' = PushAll(bc)
  /\ pc' = "popn"
  /\ UNCHANGED <<opts, inp, loc, out>>

\* BC::cnf_normalize pops a gate and normalises it
NormalizeGate ==
  /\ pc = "popn" /\ bc.ps # <<>>
  /\ bc' = GateCnfNormalize(Pop(bc), Head(bc.ps))
  /\ pc' = After(bc', pc)
  /\ UNCHANGED <<opts, inp, loc, out>>

\* BC::cnf_normalize returns true
NormalizeEnd ==
  /\ pc = "popn" /\ bc.ps = <<>>
  /\ pc' = IF opts.simplify THEN "simplify2" ELSE "share2"
  /\ UNCHANGED <<bc, opts, inp, loc, out>>

(***************************************************************************)
(* main(): cone of influence, numbering, permutation                       *)
(***************************************************************************)

\* the gates from which the cone of influence is marked
CoiRoots(S, coi) ==
  SelectSeq(Chain(S), LAMBDA g : ~coi \/ (S.g[g].det /\ ~IsJustified(S, g)))

\* the renumbering loop; st = [S, n, ok] holds the circuit, gate_num and
\* whether the assertions held
NumberGate(st, g, notless) ==
  LET S == st.S IN
  IF ~st.ok \/ S.g[g].temp = -1 THEN st
  ELSE IF notless /\ S.g[g].type = "NOT"
  THEN IF S.g[g].det \/ S.g[Kids(S, g)[1]].type = "NOT"
       THEN [st EXCEPT !.ok = FALSE]
       ELSE [st EXCEPT !.S.g[g].temp = -1]
  ELSE [st EXCEPT !.S.g[g].temp = st.n + 1, !.n = st.n + 1]

\* the pseudo random number that follows r
NextRand(r) == (75 * r + 74) % 65537

\* my_perm: a permutation of 1..n by the shuffle of Knuth, seeded by seed
MyPerm(n, seed) ==
  LET RECURSIVE go(_,_,_)
      go(perm, i, r) ==
        IF i <= 1 THEN perm
        ELSE LET r1 == NextRand(r)
                 j == (r1 % i) + 1
             IN go([perm EXCEPT ![i] = perm[j], ![j] = perm[i]], i - 1, r1)
  IN go(FoldL(LAMBDA p, v : Append(p, v), <<>>, [v \in 1..n |-> v]), n, seed)

\* Find the relevant gates and number them in temp field (aka COI)
Coi ==
  /\ pc = "coi"
  /\ LET S0 == ResetTempFields(bc, -1)
         st == FoldL(MarkCoi, [S |-> S0, n |-> 0], CoiRoots(S0, opts.coi))
     IN IF opts.coi /\ \E g \in Range(Chain(S0)) : JustifiedFails(S0, g)
        THEN bc' = Abort(S0) /\ pc' = "aborted" /\ loc' = loc
        ELSE /\ bc' = st.S
             /\ loc' = [loc EXCEPT !.nrel = st.n]
             /\ pc' = IF st.n = 0 THEN "sat_exit" ELSE "number"
  /\ UNCHANGED <<opts, inp, out>>

\* Renumber the gates in temp-fields
Number ==
  /\ pc = "number"
  /\ LET st == FoldL(LAMBDA a, g : NumberGate(a, g, opts.notless),
                     [S |-> bc, n |-> 0, ok |-> TRUE], Chain(bc))
     IN IF ~st.ok \/ st.n = 0
        THEN bc' = Abort(st.S) /\ pc' = "aborted" /\ loc' = loc
        ELSE /\ bc' = st.S
             /\ loc' = [loc EXCEPT !.max_var = st.n]
             /\ pc' = IF opts.permute THEN "permute" ELSE "table"
  /\ UNCHANGED <<opts, inp, out>>

\* Permute the CNF variable indices if required
Permute ==
  /\ pc = "permute"
  /\ LET perm == MyPerm(loc.max_var, opts.seed)
         T == MapGates(bc, LAMBDA r, i :
                IF r.type # "DELETED" /\ r.temp > 0
                THEN [r EXCEPT !.temp = perm[@]] ELSE r)
         ok == \A g \in Range(Chain(T)) :
                 /\ T.g[g].temp <= loc.max_var
                 /\ bc.g[g].temp > 0 => T.g[g].temp > 0
     IN IF ok THEN bc' = T /\ pc' = "table"
        ELSE bc' = Abort(T) /\ pc' = "aborted"
  /\ UNCHANGED <<opts, inp, loc, out>>

(***************************************************************************)
(* main(): the output                                                      *)
(***************************************************************************)

\* the lines "c <name> <-> <x>" of the gate g
NameLines(S, g, x) == [i \in 1..Len(S.g[g].handles) |->
                         <<"name", S.g[g].handles[i], x>>]

\* the lines of the translation table
TableLines(S, notless, polarity) ==
  FoldL(LAMBDA ls, g :
          IF S.g[g].temp <= 0 \/ (polarity /\ S.g[g].type # "VAR") THEN ls
          ELSE ls \o NameLines(S, g, IF notless /\ S.g[g].type = "NOT"
                                     THEN -S.g[Kids(S, g)[1]].temp
                                     ELSE S.g[g].temp),
        <<>>, Chain(S))

\* the clauses of the gate g as they leave the list: the last one first
GateClauses(S, g, notless, polarity) ==
  Reverse(IF polarity THEN CnfGetClausesPolarity(S, g, notless)
          ELSE CnfGetClauses(S, g, notless))

\* no unit clause
UnitClauseNone(S, g) == <<>>

\* the unit clause of a constrained gate
UnitClause(S, g) ==
  IF S.g[g].det THEN << <<IF S.g[g].val THEN S.g[g].temp ELSE -S.g[g].temp>> >>
  ELSE IF S.g[g].type = "TRUE" THEN << <<S.g[g].temp>> >>
  ELSE IF S.g[g].type = "FALSE" THEN << <<-S.g[g].temp>> >>
  ELSE <<>>

\* the relevant gates of the chain
Relevant(S) == SelectSeq(Chain(S), LAMBDA g : S.g[g].temp # -1)

\* the counting pass: nof_cnf_clauses
CountPass(S, notless, polarity) ==
  FoldL(LAMBDA n, g : n + Len(GateClauses(S, g, notless, polarity))
                        + (IF S.g[g].det \/ S.g[g].type \in {"TRUE", "FALSE"}
                           THEN 1 ELSE 0),
        0, Relevant(S))

\* the printing pass: the clauses written
EmitPass(S, notless, polarity) ==
  FoldL(LAMBDA cs, g : cs \o GateClauses(S, g, notless, polarity)
                          \o UnitClause(S, g),
        <<>>, Relevant(S))

\* assert(lit != 0 && abs(lit) <= max_var_num) holds for the clause cl
LitsOk(cl, max_var) ==
  \A i \in 1..Len(cl) : cl[i] # 0 /\ cl[i] <= max_var /\ -cl[i] <= max_var

\* the clauses written before an assertion on a literal fails
WrittenClauses(cs, max_var) ==
  LET bad == {i \in 1..Len(cs) : ~LitsOk(cs[i], max_var)}
  IN IF bad = {} THEN cs
     ELSE SubSeq(cs, 1, (CHOOSE i \in bad : \A j \in bad : i <= j) - 1)

\* Print info header, Print translation table
Table ==
  /\ pc = "table"
  /\ out' = out \o << <<"info">>, <<"info">>, <<"info">> >>
                \o TableLines(bc, opts.notless, opts.polarity)
  /\ pc' = IF opts.polarity THEN "polarity" ELSE "count"
  /\ UNCHANGED <<bc, opts, inp, loc>>

\* Compute polarity info if needed
Polarity ==
  /\ pc = "polarity"
  /\ bc' = MirComputePolarityInformation(bc)
  /\ pc' = After(bc', "count")
  /\ UNCHANGED <<opts, inp, loc, out>>

\* Scan the CNF in order to find the number of clauses
Count ==
  /\ pc = "count"
  /\ IF \E g \in Range(Relevant(bc)) : ClausesFail(bc, g, opts.notless)
     THEN bc' = Abort(bc) /\ pc' = "aborted" /\ loc' = loc
     ELSE /\ loc' = [loc EXCEPT
                       !.nclauses = CountPass(bc, opts.notless, opts.polarity)]
          /\ pc' = "print" /\ bc' = bc
  /\ UNCHANGED <<opts, inp, out>>

\* Print DIMACS header, Actually print the clauses
EmitCnf ==
  /\ pc = "print"
  /\ LET Write(cs, written) ==
           LET ok == /\ written = cs
                     /\ \A g \in Range(Relevant(bc)) :
                          bc.g[g].temp > 0 /\ bc.g[g].temp <= loc.max_var
                     /\ Len(cs) = loc.nclauses
           IN /\ out' = out \o << <<"p", loc.max_var, loc.nclauses>> >>
                            \o [i \in 1..Len(written) |->
                                  <<"clause", written[i]>>]
              /\ loc' = [loc EXCEPT !.printed = Len(written)]
              /\ pc' = IF ok THEN "done" ELSE "aborted"
              /\ bc' = IF ok THEN bc ELSE Abort(bc)
         Check(cs) == Write(cs, WrittenClauses(cs, loc.max_var))
     IN Check(EmitPass(bc, opts.notless, opts.polarity))
  /\ UNCHANGED <<opts, inp>>

\* the name lines "c <name> <-> T|F" of the satisfying truth assignment
ValueLines(S) ==
  FoldL(LAMBDA ls, g : ls \o [i \in 1..Len(S.g[g].handles) |->
                                <<"value", S.g[g].handles[i], S.g[g].val>>],
        <<>>, Chain(S))

\* sat_exit: the irrelevant input gates are set to false, the other gates are
\* evaluated, the consistency is checked and the dummy formula is written
SatExit ==
  /\ pc = "sat_exit"
  /\ LET vs == {g \in Range(Chain(bc)) :
                  bc.g[g].type = "VAR" /\ ~bc.g[g].det}
         S1 == MapGates(bc, LAMBDA r, i :
                 IF i \in vs THEN [r EXCEPT !.det = TRUE, !.val = FALSE]
                 ELSE r)
         Finish(S2) ==
           LET ok == /\ S2.res = "ok"
                     /\ \A g \in Range(Chain(S2)) : ~ConsistencyFails(S2, g)
                     /\ CheckConsistency(S2)
           IN IF ok /\ \A g \in Range(Chain(S2)) : S2.g[g].det
              THEN /\ bc' = S2 /\ pc' = "done"
                   /\ out' = out \o << <<"sat">> >> \o ValueLines(S2)
                                 \o << <<"p", 1, 1>>, <<"clause", <<1>> >> >>
              ELSE /\ bc' = Abort(S2) /\ pc' = "aborted"
                   /\ out' = IF ok THEN out \o << <<"sat">> >> ELSE out
     IN Finish(IF \E g \in vs : bc.g[g].temp # -1 THEN Abort(bc)
               ELSE FoldL(Evaluate, S1, Chain(S1)))
  /\ UNCHANGED <<opts, inp, loc>>

\* unsat_exit: Print a small unsatisfiable CNF
UnsatExit ==
  /\ pc = "unsat_exit"
  /\ out' = out \o << <<"unsat">>, <<"p", 1, 2>>, <<"clause", <<1>> >>,
                      <<"clause", <<-1>> >> >>
  /\ pc' = "done"
  /\ UNCHANGED <<bc, opts, inp, loc>>

(***************************************************************************)
(* The program                                                             *)
(***************************************************************************)

\* the command lines: every combination of the options
Options ==
  {o \in [simplify : BOOLEAN, all : BOOLEAN, notless : BOOLEAN,
          polarity : BOOLEAN, coi : BOOLEAN, permute : BOOLEAN,
          seed : 0..(NumSeeds - 1)] : ~o.permute => o.seed = 0}

\* the options of a command line without options
Defaults ==
  [simplify |-> TRUE, all |-> FALSE, notless |-> TRUE, polarity |-> FALSE,
   coi |-> TRUE, permute |-> FALSE, seed |-> 0]

\* the command lines with at most one option
MainOptions ==
  {Defaults, [Defaults EXCEPT !.all = TRUE],
   [Defaults EXCEPT !.simplify = FALSE], [Defaults EXCEPT !.polarity = TRUE]}

\* the input circuits that are run with every command line
CoreCircuits ==
  {Single(t, 2, TRUE) : t \in {"AND", "EQUIV", "ODD", "EVEN"}}
    \cup {Single("OR", n, TRUE) : n \in 2..MaxKids}
    \cup {UnderNot("EVEN", MaxKids, first) : first \in BOOLEAN}
    \cup {Card(2, 2, MaxKids, TRUE), Ite(<<1, 2, 3>>, TRUE),
          Nested("OR", "NOT", 1, TRUE, TRUE, TRUE),
          Nested("EQUIV", "AND", 2, FALSE, FALSE, FALSE),
          UnderNot("OR", MaxKids, TRUE), Pair("OR", "AND", FALSE),
          Forced("AND", TRUE, FALSE), Forced("OR", TRUE, TRUE),
          Forced("ODD", TRUE, TRUE), Forced("EVEN", TRUE, TRUE),
          Shape("OR", 0, 0, <<1, 4, 2>>, FALSE),
          Shape("ODD", 0, 0, <<1, 1, 2>>, TRUE), Conflict}

\* the input circuits
Circuits ==
  CoreCircuits
    \cup {Single(t, n, v) : t \in {"OR", "AND", "EQUIV", "ODD", "EVEN"},
                            n \in 2..MaxKids, v \in BOOLEAN}
    \cup {Card(lu[1], lu[2], MaxKids, v) :
            lu \in {<<0, 1>>, <<1, 1>>, <<1, 2>>, <<2, 2>>, <<2, 3>>},
            v \in BOOLEAN}
    \cup {Ite(ks, v) : ks \in {<<1, 2, 3>>, <<1, 2, 2>>, <<1, 1, 2>>,
                               <<1, 2, 1>>}, v \in BOOLEAN}
    \cup {Nested(t1, "NOT", 1, v, b, b) :
            t1 \in {"OR", "EQUIV", "ODD"}, v \in BOOLEAN, b \in BOOLEAN}
    \cup {Nested(t1, t2, 2, v, b, b) :
            t1 \in {"OR", "EQUIV", "ODD"}, t2 \in {"AND", "ODD"},
            v \in BOOLEAN, b \in BOOLEAN}
    \cup {UnderNot(t2, MaxKids, first) : t2 \in {"EVEN", "OR"},
                                         first \in BOOLEAN}
    \cup {Pair(t1, t2, v) : t1 \in {"OR", "EQUIV"}, t2 \in {"AND", "ODD", "OR"},
                            v \in BOOLEAN}
    \cup {Forced(t, v, vx) : t \in {"OR", "AND", "EQUIV", "ODD"},
                             v \in BOOLEAN, vx \in BOOLEAN}
    \cup {Shape(t, 0, 0, ks, v) :
            t \in {"OR", "AND", "EQUIV", "ODD", "EVEN"},
            ks \in {<<1, 1>>, <<1, 4>>, <<1, 4, 2>>, <<1, 1, 2>>},
            v \in BOOLEAN}
    \cup {Shape("THRESHOLD", lu[1], lu[2], ks, v) :
            lu \in {<<1, 2>>, <<2, 2>>}, ks \in {<<1, 4, 2>>, <<1, 1, 2>>},
            v \in BOOLEAN}
    \cup {Unary(t, v) : t \in {"NOT", "REF"}, v \in BOOLEAN}
    \cup {Chained(t1, t2, ks, v) :
            t1 \in {"EQUIV", "ODD", "EVEN"}, t2 \in {"OR", "AND", "ODD"},
            ks \in {<<3, 1>>, <<1, 3>>}, v \in BOOLEAN}
    \cup {Twins(t, v) : t \in {"AND", "ODD"}, v \in BOOLEAN}
    \cup {Card(lu[1], lu[2], n, v) :
            lu \in {<<0, 0>>, <<0, 1>>, <<1, 1>>, <<1, 2>>, <<2, 2>>},
            n \in 1..2, v \in BOOLEAN}
    \cup {AndUnder(ks, 1, 2, v) :
            ks \in {<<1, 2, 3>>, <<1, 1, 2>>}, v \in BOOLEAN}
    \cup {Within(ko, first) :
            ko \in {<<1>>, <<1, 1>>, <<1, 2>>, <<2, 1>>, <<1, 1, 2>>},
            first \in BOOLEAN}
    \cup {Negations(1, 2, ks, v) :
            ks \in {<<3, 4, 1>>, <<4, 3, 1>>, <<1, 3, 4>>, <<3, 1, 4>>,
                    <<3, 4, 2>>, <<4, 1, 2>>}, v \in BOOLEAN}
    \cup {Lattice(ks) : ks \in {<<3, 4, 5>>, <<3, 5, 4>>, <<4, 3, 5>>,
                                 <<4, 5, 3>>, <<5, 3, 4>>, <<5, 4, 3>>}}

\* the runs: the core circuits under every command line, every circuit under
\* the command lines with at most one option
Runs == (CoreCircuits \X Options) \cup (Circuits \X MainOptions)

Init ==
  /\ \E r \in Runs : inp = r[1] /\ opts = r[2]
  /\ bc = Build(inp)
  /\ pc = "force"
  /\ loc = [nrel |-> 0, max_var |-> 0, nclauses |-> 0, printed |-> 0]
  /\ out = <<>>

Next ==
  \/ ForceTrue \/ ForceFalse \/ Prepare
  \/ SimplifyBegin \/ SimplifyGate \/ SimplifyShare \/ ShareOnly
  \/ NormalizeBegin \/ NormalizeGate \/ NormalizeEnd
  \/ Coi \/ Number \/ Permute
  \/ Table \/ Polarity \/ Count \/ EmitCnf
  \/ SatExit \/ UnsatExit

Spec == Init /\ [][Next]_vars

(***************************************************************************)
(* The meaning of circuits and of CNF formulas                             *)
(***************************************************************************)

\* the input gates of the circuit c
InputGates(c) == {g \in 1..Len(c.gates) : c.gates[g].type = "VAR"}

\* the value of the gate g of the circuit c under the input assignment a
RECURSIVE GateValue(_,_,_)
GateValue(c, a, g) ==
  LET d == c.gates[g]
      val(i) == GateValue(c, a, d.kids[i])
      nt == Cardinality({i \in 1..Len(d.kids) : val(i)})
  IN CASE d.type = "VAR" -> a[g]
       [] d.type = "TRUE" -> TRUE
       [] d.type = "FALSE" -> FALSE
       [] d.type = "REF" -> val(1)
       [] d.type = "NOT" -> ~val(1)
       [] d.type = "OR" -> nt > 0
       [] d.type = "AND" -> nt = Len(d.kids)
       [] d.type = "EQUIV" -> nt = 0 \/ nt = Len(d.kids)
       [] d.type = "ODD" -> nt % 2 = 1
       [] d.type = "EVEN" -> nt % 2 = 0
       [] d.type = "ITE" -> IF val(1) THEN val(2) ELSE val(3)
       [] d.type = "THRESHOLD" -> d.tmin <= nt /\ nt <= d.tmax
       [] d.type = "ATLEAST" -> d.tmin <= nt

\* the input assignment a satisfies the constraints of the circuit c
Satisfies(c, a) ==
  /\ \A i \in 1..Len(c.at) : GateValue(c, a, c.at[i])
  /\ \A i \in 1..Len(c.af) : ~GateValue(c, a, c.af[i])

\* the satisfying input assignments of the circuit c
CircuitModels(c) == {a \in [InputGates(c) -> BOOLEAN] : Satisfies(c, a)}

\* the clauses of the output o, each as the set of its literals
ClauseSet(o) ==
  {Range(o[i][2]) : i \in {j \in 1..Len(o) : o[j][1] = "clause"}}

\* the clauses cls after the literal l has been made true
Assign(cls, l) == {c \ {-l} : c \in {d \in cls : l \notin d}}

\* the set of clauses cls has a model
RECURSIVE Solvable(_)
Solvable(cls) ==
  IF cls = {} THEN TRUE
  ELSE IF {} \in cls THEN FALSE
  ELSE LET c == CHOOSE d \in cls :
                  \A d2 \in cls : Cardinality(d) <= Cardinality(d2)
           l == CHOOSE x \in c : TRUE
       IN Solvable(Assign(cls, l)) \/ Solvable(Assign(cls, -l))

\* the header line "p cnf V C" of the output o
Header(o) == LET i == CHOOSE j \in 1..Len(o) : o[j][1] = "p" IN o[i]

\* the output is complete and is the real encoding of the circuit
NormalOutput == pc = "done" /\ loc.max_var > 0

(***************************************************************************)
(* Properties                                                              *)
(***************************************************************************)

\* C1: with the default options the formula written (the real encoding, the
\* dummy satisfiable or the dummy unsatisfiable formula) is satisfiable if and
\* only if some input assignment satisfies all constraints of the circuit
C1_SatisfiabilityPreserved ==
  (pc = "done" /\ opts = Defaults) =>
     (Solvable(ClauseSet(out)) <=> CircuitModels(inp) # {})

\* a real encoding of a satisfiable circuit has been written
C1_Witness ==
  /\ NormalOutput /\ opts = Defaults
  /\ CircuitModels(inp) # {} /\ Solvable(ClauseSet(out))

\* the input gates that have a variable in the formula written
NumberedInputs ==
  {g \in InputGates(inp) : bc.g[g].type = "VAR" /\ bc.g[g].temp > 0}

\* the assignments of the input gates X that extend to a model of the formula
CnfProjection(X) ==
  {b \in [X -> BOOLEAN] :
     Solvable(ClauseSet(out)
                \cup {{IF b[g] THEN bc.g[g].temp ELSE -bc.g[g].temp} : g \in X})}

\* the satisfying input assignments of the circuit, restricted to X
CircuitProjection(X) == {[g \in X |-> a[g]] : a \in CircuitModels(inp)}

DummyUnsat ==
  << <<"unsat">>, <<"p", 1, 2>>, <<"clause", <<1>> >>, <<"clause", <<-1>> >> >>

\* C3: once force_true, force_false, simplify, share or cnf_normalize has
\* returned false no later stage runs: main() is at unsat_exit with nothing
\* written, or has finished with only the dummy unsatisfiable formula written
C3_UnsatStopsPipeline ==
  bc.res = "unsat" =>
     \/ pc = "unsat_exit" /\ out = <<>>
     \/ pc = "done" /\ out = DummyUnsat

\* a run on which an inconsistency was derived has finished
C3_Witness == bc.res = "unsat" /\ pc = "done" /\ out = DummyUnsat

\* the clause lines of the output o
ClauseLines(o) == SelectSeq(o, LAMBDA ln : ln[1] = "clause")

\* the gates of the chain that have a variable
Numbered(S) == {g \in Range(Chain(S)) : S.g[g].temp > 0}

\* C4: once the numbering is done the run does not abort, and in the normal
\* output the header "p cnf V C" is exact: the gates with a variable have
\* pairwise distinct variables that are exactly 1..V, every literal written is
\* not zero and at most V in absolute value, and C is the number of clause
\* lines written, which is the number the counting pass found
C4_HeaderExact ==
  /\ pc = "aborted" => loc.max_var = 0
  /\ NormalOutput =>
       /\ {bc.g[g].temp : g \in Numbered(bc)} = 1..loc.max_var
       /\ Cardinality(Numbered(bc)) = loc.max_var
       /\ Header(out) = <<"p", loc.max_var, Len(ClauseLines(out))>>
       /\ \A i \in 1..Len(ClauseLines(out)) :
            LitsOk(ClauseLines(out)[i][2], loc.max_var)
       /\ loc.nclauses = Len(ClauseLines(out))

\* a normal output with permuted variables, three or more of them
C4_Witness ==
  /\ NormalOutput /\ opts.permute /\ loc.max_var >= 3
  /\ Len(ClauseLines(out)) >= 4

\* C5: in NOT-less mode, when the numbering stage is reached, every relevant
\* NOT gate is undetermined and has a child that is not a NOT gate, and after
\* the numbering it has no variable
C5_NotGatesHaveNoVariable ==
  /\ (opts.notless /\ pc = "number") =>
       \A g \in Range(Relevant(bc)) :
         bc.g[g].type = "NOT" =>
           ~bc.g[g].det /\ bc.g[Kids(bc, g)[1]].type # "NOT"
  /\ (opts.notless /\ loc.max_var > 0) =>
       \A g \in Range(Chain(bc)) : bc.g[g].type = "NOT" => bc.g[g].temp = -1

\* the name handles of the gates of the chain of S
NameHandles(S) ==
  FoldL(LAMBDA ns, g : ns \o S.g[g].handles, <<>>, Chain(S))

\* the lines "c <name> <-> T|F" of the output o
ValueLinesOf(o) == SelectSeq(o, LAMBDA ln : ln[1] = "value")

\* the store S and the output o are what sat_exit leaves behind: every gate is
\* determined and consistent, and the dummy satisfiable formula is written
\* with one line "c <name> <-> T|F" for every name handle
SatExitDone(S, o) ==
  /\ S.res = "ok"
  /\ \A g \in Range(Chain(S)) : S.g[g].det
  /\ CheckConsistency(S)
  /\ Len(ValueLinesOf(o)) = Len(NameHandles(S))
  /\ \A g \in Range(Chain(S)) : \A i \in 1..Len(S.g[g].handles) :
       <<"value", S.g[g].handles[i], S.g[g].val>> \in Range(o)
  /\ Header(o) = <<"p", 1, 1>>
  /\ ClauseLines(o) = << <<"clause", <<1>> >> >>
  /\ \A i \in 1..Len(o) : o[i][1] # "name"

\* C6: if the cone of influence is empty then sat_exit neither fails in the
\* evaluation nor in the consistency check, every gate of the store ends up
\* determined, and the dummy satisfiable formula is written with one comment
\* line for every name handle
C6_SatExit ==
  [][pc = "sat_exit" => (pc' = "done" /\ SatExitDone(bc', out'))]_vars

\* sat_exit has evaluated a gate that was not determined and has finished
C6_Witness ==
  /\ pc = "done" /\ loc.nrel = 0 /\ bc.res = "ok" /\ SatExitDone(bc, out)
  /\ Len(ValueLinesOf(out)) >= 3
  /\ \E g \in Range(Chain(bc)) : bc.g[g].type \notin {"VAR", "TRUE", "FALSE"}

\* the gates of the cone of influence of the circuit S
ConeOfInfluence(S, coi) ==
  LET st == FoldL(MarkCoi, [S |-> ResetTempFields(S, -1), n |-> 0],
                  CoiRoots(S, coi))
  IN {g \in Range(Chain(S)) : st.S.g[g].temp >= 0}

\* the literal of the gate g in the formula written
GateLiteral(S, g, notless) ==
  IF notless /\ S.g[g].type = "NOT" THEN -S.g[Kids(S, g)[1]].temp
  ELSE S.g[g].temp

\* C7: in the normal output there is a line "c <name> <-> <literal>" for every
\* name handle of every gate of the cone of influence; the literal of a NOT
\* gate in NOT-less mode is the negation of the variable of its child
C7_NamesOfConeListed ==
  NormalOutput =>
    \A g \in ConeOfInfluence(bc, opts.coi) :
      \A i \in 1..Len(bc.g[g].handles) :
        <<"name", bc.g[g].handles[i], GateLiteral(bc, g, opts.notless)>>
          \in Range(out)

\* the circuit whose only constraint is r := EQUIV(x, y) assigned to true
EquivCircuit == Single("EQUIV", 2, TRUE)

\* the formula written has the variables x, y and r and is made of the four
\* clauses of r <-> (x <-> y) and the unit clause r
EquivEncoding ==
  LET x == bc.g[1].temp
      y == bc.g[2].temp
      r == bc.g[3].temp
  IN /\ {x, y, r} = 1..3
     /\ Header(out) = <<"p", 3, 5>>
     /\ Len(ClauseLines(out)) = 5
     /\ ClauseSet(out) = {{-r, -x, y}, {-r, x, -y}, {r, -x, -y}, {r, x, y}, {r}}

\* C8 as stated: the circuit r := EQUIV(x, y), r true, is written as a
\* formula with 3 variables and 5 clauses
C8_EquivThreeVarsFiveClauses ==
  (pc = "done" /\ inp = EquivCircuit) => EquivEncoding

\* C8: the circuit r := EQUIV(x, y), r true, is written as a formula with 3
\* variables and 5 clauses if the input gates may not be transformed (-all) or
\* the simplifier does not run (-nosimplify), and the standard translation is
\* used; with the simplifier and the cone of influence, and without -all, x
\* and y are unified, the cone of influence is empty and the dummy
\* satisfiable formula is written
C8_EquivEncodingUnlessUnified ==
  (pc = "done" /\ inp = EquivCircuit) =>
     /\ ((opts.all \/ ~opts.simplify) /\ ~opts.polarity) => EquivEncoding
     /\ (~opts.all /\ opts.simplify /\ opts.coi) => SatExitDone(bc, out)

\* the formula with 3 variables and 5 clauses has been written under -all
C8_Witness ==
  /\ pc = "done" /\ inp = EquivCircuit /\ opts.all /\ opts.simplify
  /\ ~opts.polarity /\ EquivEncoding

\* the input circuit is g := OR(x1,...,xn), g true, with n input gates
IsOrCircuit(n) == inp = Single("OR", n, TRUE)

\* the clauses of g := OR(x1,...,xn) in the formula written: the forward
\* clause, the reverse clauses if wanted, and the unit clause
OrClauses(n, reverse) ==
  LET g == bc.g[n + 1].temp
      c == [i \in 1..n |-> bc.g[i].temp]
  IN {{-g} \cup Range(c), {g}}
       \cup (IF reverse THEN {{g, -c[i]} : i \in 1..n} ELSE {})

\* C9: for g := OR(x1,...,xn), g true, the standard translation writes the
\* forward clause, the n reverse clauses and the unit clause g; -polarity_cnf
\* writes the forward clause and the unit clause g only
C9_OrClauses ==
  \A n \in 2..MaxKids :
    (pc = "done" /\ IsOrCircuit(n)) =>
       /\ ClauseSet(out) = OrClauses(n, ~opts.polarity)
       /\ Len(ClauseLines(out)) = IF opts.polarity THEN 2 ELSE n + 2
       /\ Cardinality({bc.g[i].temp : i \in 1..(n + 1)}) = n + 1

\* the two clauses of the largest OR gate have been written by -polarity_cnf
C9_Witness ==
  /\ pc = "done" /\ IsOrCircuit(MaxKids) /\ opts.polarity
  /\ ClauseSet(out) = OrClauses(MaxKids, FALSE)

\* the clauses that the standard translation writes for the circuit S
StandardClauses(S, notless) ==
  {Range(cl) : cl \in Range(EmitPass(S, notless, FALSE))}

\* C10: the formula written with -polarity_cnf is satisfiable if and only if
\* the formula of the standard translation of the same normalised circuit and
\* cone of influence is satisfiable
C10_PolarityEquisatisfiable ==
  (NormalOutput /\ opts.polarity) =>
     (Solvable(ClauseSet(out)) <=> Solvable(StandardClauses(bc, opts.notless)))

\* -polarity_cnf has written fewer clauses than the standard translation,
\* and an unsatisfiable formula
C10_Witness ==
  /\ NormalOutput /\ opts.polarity
  /\ Len(ClauseLines(out)) < Len(EmitPass(bc, opts.notless, FALSE))
  /\ ~Solvable(ClauseSet(out))

\* every gate determined in the store S is determined to the same value in T
ValuesKept(S, T) ==
  \A g \in 1..Len(S.g) :
    S.g[g].det => (T.g[g].det /\ T.g[g].val = S.g[g].val)

\* the constraint that main() is about to force contradicts the value of its gate
ForceConflict ==
  /\ pc = "force"
  /\ \/ bc.at # <<>> /\ bc.g[Head(bc.at)].det /\ ~bc.g[Head(bc.at)].val
     \/ bc.at = <<>> /\ bc.af # <<>> /\ bc.g[Head(bc.af)].det
          /\ bc.g[Head(bc.af)].val

\* the gate that the simplifier or the normaliser is about to process is a
\* determined REF or NOT gate whose child is determined to the other value
RefNotConflict ==
  /\ pc \in {"pop1", "pop2", "popn"} /\ bc.ps # <<>>
  /\ LET g == Head(bc.ps) IN
       /\ bc.g[g].type \in {"REF", "NOT"} /\ bc.g[g].det
       /\ LET c == Kids(bc, g)[1] IN
            /\ bc.g[c].det
            /\ (bc.g[c].val = bc.g[g].val) <=> (bc.g[g].type = "NOT")

\* the stages of main() that set values
SetsValues ==
  pc \in {"force", "pop1", "pop2", "share1", "share2", "popn", "sat_exit"}

NormalShape(S, g) ==
  LET t == S.g[g].type
      n == CountChildren(S, g)
  IN CASE t \in {"TRUE", "FALSE", "VAR"} -> n = 0
       [] t = "NOT" -> n = 1 /\ S.g[Kids(S, g)[1]].type # "NOT"
       [] t \in {"OR", "AND"} -> n >= 2
       [] t \in {"EQUIV", "ODD", "EVEN"} -> n = 2
       [] t = "ITE" -> n = 3
       [] OTHER -> FALSE

\* cnf_normalize has returned true and nothing has run since
NormalizeDone == pc \in {"simplify2", "share2"}

\* C13: when cnf_normalize has returned true, every gate that is not deleted
\* is a constant, an input gate, a NOT gate over a gate that is not a NOT
\* gate, an OR or AND gate with two or more children, a binary EQUIV, ODD or
\* EVEN gate, or an ITE gate with three children
C13_NormalShapes ==
  NormalizeDone => \A g \in Range(Chain(bc)) : NormalShape(bc, g)

\* the gates that the edges of the store S lead to from the gates gs in one
\* or more steps
Descendants(S, gs) ==
  LET Step(xs) == {S.e[i].c : i \in {j \in 1..Len(S.e) : S.e[j].p \in xs}}
      RECURSIVE grow(_)
      grow(seen) ==
        LET more == seen \cup Step(seen)
        IN IF more = seen THEN seen ELSE grow(more)
  IN grow(Step(gs))

\* no gate of the store S is among its own descendants
Acyclic(S) == \A g \in 1..Len(S.g) : g \notin Descendants(S, {g})

\* C14: the circuit is acyclic after every step of the simplifier, of the
\* structure sharing and of the normalisation, the steps that move edges for a
\* true EQUIV gate or a determined binary ODD or EVEN gate and those that turn
\* an input gate into a REF or NOT gate included
C14_Acyclic == Acyclic(bc)

\* the edge from q to s has been moved to the other child of a determined
\* binary gate, or to a NOT gate over it
C14_Witness ==
  /\ \E t1 \in {"EQUIV", "ODD", "EVEN"}, v \in BOOLEAN :
       inp = Chained(t1, "OR", <<3, 1>>, v)
  /\ bc.res = "ok" /\ bc.g[4].type = "NOT" /\ Kids(bc, 4) # <<3>>
  /\ bc.g[5].det /\ ~bc.g[1].det /\ ~bc.g[3].det

\* the number of places of the list seq that hold x
Occurrences(seq, x) == Cardinality({i \in 1..Len(seq) : seq[i] = x})

\* the edge id of the store S is once in the children list of its parent and
\* once in the parents list of its child, and in no other list; a deleted edge
\* is in no list
EdgeLinked(S, id) ==
  LET ed == S.e[id] IN
  /\ \A g \in 1..Len(S.g) :
       /\ Occurrences(S.g[g].ch, id) = (IF ed.p = g THEN 1 ELSE 0)
       /\ Occurrences(S.g[g].pa, id) = (IF ed.c = g THEN 1 ELSE 0)
  /\ (ed.p = 0) <=> (ed.c = 0)
  /\ ed.p \in 0..Len(S.g) /\ ed.c \in 0..Len(S.g)

\* the lists of the gates of the store S hold edges of S only
ListsHoldEdges(S) ==
  \A g \in 1..Len(S.g) :
    Range(S.g[g].ch) \cup Range(S.g[g].pa) \subseteq 1..Len(S.e)

\* C15: every edge is exactly once in the children list of the gate in its
\* parent field and exactly once in the parents list of the gate in its child
\* field, and the lists hold nothing else
C15_EdgeListsConsistent ==
  ListsHoldEdges(bc) /\ \A id \in 1..Len(bc.e) : EdgeLinked(bc, id)

\* edges have been created, deleted and moved to another child or parent
C15_Witness ==
  LET E0 == Build(inp).e IN
  /\ bc.res = "ok" /\ Len(bc.e) > Len(E0)
  /\ \E id \in 1..Len(E0) : bc.e[id].p = 0
  /\ \E id \in 1..Len(E0) : bc.e[id].p # 0 /\ bc.e[id].c # E0[id].c
  /\ \E id \in 1..Len(E0) : bc.e[id].p # 0 /\ bc.e[id].p # E0[id].p

\* one more run of the simplifier on the store S: every gate is pushed, the
\* gates are popped and rewritten until the propagation stack is empty
SimplifyAgain(S) ==
  LET RECURSIVE run(_)
      run(T) == IF T.res # "ok" \/ T.ps = <<>> THEN T
                ELSE run(GateSimplify(Pop(T), Head(T.ps)))
  IN run(PushAll([S EXCEPT !.changed = FALSE]))

\* the stores S and T hold the same gates: same types, children, bounds,
\* determined flags and values, none deleted and none created
SameGates(S, T) ==
  /\ Len(T.g) = Len(S.g)
  /\ \A g \in 1..Len(S.g) :
       /\ T.g[g].type = S.g[g].type /\ Kids(T, g) = Kids(S, g)
       /\ T.g[g].tmin = S.g[g].tmin /\ T.g[g].tmax = S.g[g].tmax
       /\ T.g[g].det = S.g[g].det /\ T.g[g].val = S.g[g].val

\* a gate of the store S whose rule removes determined children has one
AbsorbableChild(S) ==
  \E g \in 1..Len(S.g) :
    /\ S.g[g].type \in {"OR", "AND", "ODD", "EVEN", "EQUIV", "ITE",
                        "THRESHOLD", "ATLEAST"}
    /\ \E c \in Range(Kids(S, g)) : S.g[c].det

\* BC::simplify has returned true and nothing has run since
SimplifierDone == opts.simplify /\ pc \in {"normalize", "coi"}

\* C16: when BC::simplify has returned true, one more run of the simplifier
\* (push every gate, pop and rewrite until the stack is empty) changes no
\* type, children, bounds, determined flag or value and deletes and creates no
\* gate, and no gate has a determined child that its rule would absorb
C16_SimplifierIdempotent ==
  SimplifierDone =>
    /\ SameGates(bc, SimplifyAgain(bc))
    /\ ~AbsorbableChild(bc)

\* what two gates are compared by: the type, the bounds and the children, in
\* the order of their indices if the type is commutative
ShareKey(S, g) ==
  <<S.g[g].type, S.g[g].tmin, S.g[g].tmax,
    IF IsCommutative(S.g[g].type) THEN SortByIndex(Kids(S, g)) ELSE Kids(S, g)>>

\* two distinct gates of S, not deleted and not input gates, with the same key
TwinGates(S) ==
  \E a, b \in Range(Chain(S)) :
    a < b /\ S.g[a].type # "VAR" /\ ShareKey(S, a) = ShareKey(S, b)

\* BC::share is called in this state
ShareCalled ==
  \/ pc \in {"share1", "share2"}
  \/ pc \in {"pop1", "pop2"} /\ bc.ps = <<>>

\* C17: when share() has returned true, no two distinct gates that are not
\* deleted and not input gates have the same type, bounds and children
\* (sorted by index for commutative types), and one more share() returns true,
\* merges nothing and changes no gate
C17_ShareLeavesNoTwins ==
  [][(ShareCalled /\ bc'.res = "ok") =>
       /\ ~TwinGates(bc')
       /\ BCShare(bc').res = "ok" /\ SameGates(bc', BCShare(bc'))]_vars

\* the input gates of the store S
StoreInputs(S) == {g \in 1..Len(S.g) : S.g[g].type = "VAR"}

\* the value of the gate g of the store S under the input assignment a; the
\* children count edge by edge
RECURSIVE StoreValue(_,_,_)
StoreValue(S, a, g) ==
  LET d == S.g[g]
      ks == Kids(S, g)
      val(i) == StoreValue(S, a, ks[i])
      nt == Cardinality({i \in 1..Len(ks) : val(i)})
  IN CASE d.type = "VAR" -> a[g]
       [] d.type = "TRUE" -> TRUE
       [] d.type = "FALSE" -> FALSE
       [] d.type = "REF" -> val(1)
       [] d.type = "NOT" -> ~val(1)
       [] d.type = "OR" -> nt > 0
       [] d.type = "AND" -> nt = Len(ks)
       [] d.type = "EQUIV" -> nt = 0 \/ nt = Len(ks)
       [] d.type = "ODD" -> nt % 2 = 1
       [] d.type = "EVEN" -> nt % 2 = 0
       [] d.type = "ITE" -> IF val(1) THEN val(2) ELSE val(3)
       [] d.type = "THRESHOLD" -> d.tmin <= nt /\ nt <= d.tmax
       [] d.type = "ATLEAST" -> d.tmin <= nt
       [] OTHER -> FALSE

\* the simplifier is about to process the true THRESHOLD gate g, and the rules
\* that come before the falsification of AND gates do not apply to it
FalsifyApplies(g) ==
  LET n == CountChildren(bc, g)
      l == bc.g[g].tmin
      u == IF bc.g[g].tmax > n THEN n ELSE bc.g[g].tmax
  IN /\ pc \in {"pop1", "pop2"} /\ bc.ps # <<>> /\ Head(bc.ps) = g
     /\ bc.g[g].type = "THRESHOLD" /\ bc.g[g].det /\ bc.g[g].val
     /\ \A c \in Range(Kids(bc, g)) : ~bc.g[c].det
     /\ bc.g[g].tmin <= bc.g[g].tmax
     /\ n > 0 /\ l < n /\ u > 0 /\ ~(l = 0 /\ u + 1 >= n)

\* the AND gate p is one that the true THRESHOLD gate g of the store S
\* falsifies: its child edges all lead to children of g and are more than the
\* upper bound of g
AndHit(S, g, p) ==
  /\ S.g[p].type = "AND" /\ Kids(S, p) # <<>>
  /\ Range(Kids(S, p)) \subseteq Range(Kids(S, g))
  /\ CountChildren(S, p) > (IF S.g[g].tmax > CountChildren(S, g)
                             THEN CountChildren(S, g) ELSE S.g[g].tmax)

\* C18: an AND gate that a true THRESHOLD gate falsifies (all its child edges
\* lead to children of the THRESHOLD gate and they are more than the upper
\* bound) is set to false or rejected by the step, and is false under every
\* input assignment under which the THRESHOLD gate is true
C18_FalsifiedAndIsFalse ==
  \A g, p \in 1..Len(bc.g) :
    (FalsifyApplies(g) /\ AndHit(bc, g, p)) =>
      /\ LET T == GateSimplify(Pop(bc), g)
         IN T.res = "unsat" \/ (T.res = "ok" /\ T.g[p].det /\ ~T.g[p].val)
      /\ \A a \in [StoreInputs(bc) -> BOOLEAN] :
           StoreValue(bc, a, g) => ~StoreValue(bc, a, p)

\* the normaliser is about to rewrite the gate g, an ATLEAST gate with a
\* bound above 1 and below the number of its children
AtleastTurn(g) ==
  /\ pc = "popn" /\ bc.ps # <<>> /\ Head(bc.ps) = g
  /\ bc.g[g].type = "ATLEAST"
  /\ 1 < bc.g[g].tmin /\ bc.g[g].tmin < CountChildren(bc, g)

\* the pairs (i,j) for which (>= i)(g1,...,gj) is needed to build
\* (>= l)(g1,...,gn)
AtleastPairs(l, n) ==
  {pr \in (1..l) \X (1..n) : pr[1] <= pr[2] /\ pr[2] - pr[1] <= n - l}

\* the number of gates needed beside the gate itself: one for each other
\* pair and one more AND gate for each pair (i,j) with 1 < i < j
AtleastGates(l, n) ==
  Cardinality(AtleastPairs(l, n)) - 1
    + Cardinality({pr \in AtleastPairs(l, n) : 1 < pr[1] /\ pr[1] < pr[2]})

\* the gates of the store T that the store S does not have
NewGates(S, T) == (Len(S.g) + 1)..Len(T.g)

\* C19: the normalisation of an ATLEAST gate with bound L over n children,
\* 1 < L < n, leaves a gate that is true exactly under the input assignments
\* under which L or more of the child edges are true; the gates created are
\* AND, OR and REF gates, one for each needed pair (i,j) and one AND gate more
\* for each pair with 1 < i < j, no two of them equal; the gate itself becomes
\* the OR gate of the pair (L,n) and keeps its names, parents and value
C19_AtleastRewriting ==
  [][\A g \in 1..Len(bc.g) : AtleastTurn(g) =>
       /\ bc'.res = "ok"
       /\ \A a \in [StoreInputs(bc) -> BOOLEAN] :
            StoreValue(bc', a, g) <=> StoreValue(bc, a, g)
       /\ \A h \in NewGates(bc, bc') : bc'.g[h].type \in {"AND", "OR", "REF"}
       /\ Cardinality(NewGates(bc, bc'))
            = AtleastGates(bc.g[g].tmin, CountChildren(bc, g))
       /\ \A h1, h2 \in NewGates(bc, bc') \cup {g} :
            (/\ ShareKey(bc', h1)[1] = ShareKey(bc', h2)[1]
             /\ ShareKey(bc', h1)[4] = ShareKey(bc', h2)[4]) => h1 = h2
       /\ bc'.g[g].type = "OR" /\ bc'.g[g].handles = bc.g[g].handles
       /\ Folks(bc', g) = Folks(bc, g)
       /\ bc'.g[g].det = bc.g[g].det /\ bc'.g[g].val = bc.g[g].val]_vars

\* an ATLEAST gate with the bound 2 over three children has been rewritten
C19_Witness ==
  /\ pc = "popn" /\ bc.res = "ok"
  /\ \E g \in 1..Len(bc.g) :
       /\ bc.g[g].type = "OR" /\ bc.g[g].tmin = 2 /\ CountChildren(bc, g) = 2
       /\ \E a \in [StoreInputs(bc) -> BOOLEAN] : StoreValue(bc, a, g)
       /\ \E a \in [StoreInputs(bc) -> BOOLEAN] : ~StoreValue(bc, a, g)

\* the normaliser is about to rewrite the THRESHOLD gate g, and the adder
\* construction is not chosen for it
ThresholdTurn(g) ==
  /\ pc = "popn" /\ bc.ps # <<>> /\ Head(bc.ps) = g
  /\ bc.g[g].type = "THRESHOLD" /\ CountChildren(bc, g) >= 1
  /\ ~UsesAdder(bc.g[g].tmin,
                IF bc.g[g].tmax > CountChildren(bc, g)
                THEN CountChildren(bc, g) ELSE bc.g[g].tmax,
                CountChildren(bc, g))

\* the gate h of the store T is an ATLEAST gate with the bound l over the
\* children that the gate g has in the store S
AtleastOver(S, T, g, h, l) ==
  /\ T.g[h].type = "ATLEAST" /\ T.g[h].tmin = l
  /\ SortByIndex(Kids(T, h)) = SortByIndex(Kids(S, g))

\* the gate g of the store T is what the THRESHOLD gate g of the store S, with
\* the bounds l and u, is replaced by
DecomposedShape(S, T, g, l, u) ==
  LET t == T.g[g].type
      ks == Kids(T, g)
      new == NewGates(S, T)
  IN \/ t \in {"TRUE", "FALSE"} /\ ks = <<>> /\ new = {}
     \/ t \in {"REF", "NOT", "OR"} /\ ks = Kids(S, g) /\ new = {}
     \/ AtleastOver(S, T, g, g, l) /\ new = {}
     \/ /\ t = "NOT" /\ Len(ks) = 1 /\ new = {ks[1]}
        /\ AtleastOver(S, T, g, ks[1], u + 1)
     \/ /\ t = "AND" /\ Len(ks) = 2 /\ Cardinality(new) = 3
        /\ \E h1, h2, h3 \in new :
             /\ Range(ks) = {h1, h3} /\ AtleastOver(S, T, g, h1, l)
             /\ T.g[h3].type = "NOT" /\ Kids(T, h3) = <<h2>>
             /\ AtleastOver(S, T, g, h2, u + 1)

\* C20: the normalisation of a THRESHOLD gate [L,U] over n children for which
\* the adder construction is not chosen (U <= 2, or L + 2 >= n, or L <= 2 and
\* U + 2 >= n) does not abort; if it returns true, the gate is a constant, a
\* REF, NOT or OR gate over the same children, (>= L), ~(>= U+1) or
\* (>= L) & ~(>= U+1) over the same children, and is true exactly under the
\* input assignments under which the number of true child edges is at least
\* L and at most U
C20_ThresholdDecomposition ==
  [][\A g \in 1..Len(bc.g) : ThresholdTurn(g) =>
       /\ bc'.res # "error"
       /\ bc'.res = "ok" =>
            /\ DecomposedShape(bc, bc', g, bc.g[g].tmin,
                                IF bc.g[g].tmax > CountChildren(bc, g)
                                THEN CountChildren(bc, g) ELSE bc.g[g].tmax)
            /\ \A a \in [StoreInputs(bc) -> BOOLEAN] :
                 StoreValue(bc', a, g) <=> StoreValue(bc, a, g)]_vars

\* [2,2](x, y, z) has been replaced by an AND gate with exactly three models
C20_Witness ==
  /\ pc = "popn" /\ bc.res = "ok" /\ inp = Card(2, 2, 3, TRUE)
  /\ bc.g[4].type = "AND" /\ Len(bc.g) = 7
  /\ Cardinality({a \in [StoreInputs(bc) -> BOOLEAN] :
                    StoreValue(bc, a, 4)}) = 3

\* r := t(ks) over the input gates x, y, z, n := NOT(x) and m := NOT(y)
Over(t, ks) ==
  Circuit(Vars(3) \o <<G("NOT", <<1>>, <<Nm("n")>>),
                       G("NOT", <<2>>, <<Nm("m")>>), G(t, ks, <<Nm("r")>>)>>,
          <<>>, <<>>)

\* the numbers of children with which a gate of the type t is translated
Arities(t) ==
  CASE t \in {"REF", "NOT"} -> {1}
    [] t \in {"EQUIV", "EVEN", "ODD"} -> {2}
    [] t = "ITE" -> {3}
    [] OTHER -> 1..MaxKids

\* the gates whose clauses are asked for
ClauseGates ==
  UNION {{Over(t, ks) : ks \in UNION {[1..n -> 1..5] : n \in Arities(t)}} :
           t \in {"REF", "NOT", "OR", "AND", "EQUIV", "EVEN", "ODD", "ITE"}}

\* the store of the circuit c with every gate numbered in its temp field by
\* the renumbering loop of main()
NumberedStore(c, notless) ==
  FoldL(LAMBDA a, g : NumberGate(a, g, notless),
        [S |-> ResetTempFields(Build(c), 0), n |-> 0, ok |-> TRUE],
        [i \in 1..Len(c.gates) |-> i])

\* the gate whose clauses are asked for is the last one
TopGate(S) == Len(S.g)

\* a numbered circuit and a translation mode
InitClauses ==
  /\ \E c \in ClauseGates, notless \in BOOLEAN :
       /\ inp = c /\ opts = [Defaults EXCEPT !.notless = notless]
       /\ NumberedStore(c, notless).ok
       /\ bc = NumberedStore(c, notless).S
       /\ loc = [nrel |-> Len(c.gates), max_var |-> NumberedStore(c, notless).n,
                 nclauses |-> 0, printed |-> 0]
  /\ pc = "clauses"
  /\ out = <<>>

\* cnf_get_clauses returns the clauses of the gate, or calls internal_error
GetClauses ==
  /\ pc = "clauses"
  /\ IF ClausesFail(bc, TopGate(bc), opts.notless)
     THEN bc' = Abort(bc) /\ pc' = "aborted" /\ out' = out
     ELSE /\ out' = [i \in 1..Len(CnfGetClauses(bc, TopGate(bc),
                                                opts.notless)) |->
                      <<"clause",
                        CnfGetClauses(bc, TopGate(bc), opts.notless)[i]>>]
          /\ pc' = "returned" /\ bc' = bc
  /\ UNCHANGED <<opts, inp, loc>>

SpecClauses == InitClauses /\ [][GetClauses]_vars

\* the literal l is true when the variables of the set m are the true ones
LitTrue(m, l) == IF l > 0 THEN l \in m ELSE (-l) \notin m

\* the function of the gate g of the store S applied to the literals of its
\* children, when the variables of the set m are the true ones
OpOfChildren(S, g, notless, m) ==
  LET ks == Kids(S, g)
      val(i) == LitTrue(m, GateLiteral(S, ks[i], notless))
      nt == Cardinality({i \in 1..Len(ks) : val(i)})
      t == S.g[g].type
  IN CASE t = "REF" -> val(1)
       [] t = "NOT" -> ~val(1)
       [] t = "OR" -> nt > 0
       [] t = "AND" -> nt = Len(ks)
       [] t = "EQUIV" -> nt = 0 \/ nt = Len(ks)
       [] t = "ODD" -> nt % 2 = 1
       [] t = "EVEN" -> nt % 2 = 0
       [] t = "ITE" -> IF val(1) THEN val(2) ELSE val(3)
       [] OTHER -> FALSE

\* the variables of the gate g and of the literals of its children
GateVariables(S, g, notless) ==
  LET abs(l) == IF l < 0 THEN -l ELSE l
  IN {abs(GateLiteral(S, g, notless))}
       \cup {abs(GateLiteral(S, Kids(S, g)[i], notless)) :
               i \in 1..CountChildren(S, g)}

\* the clauses of the gate g are satisfied by exactly the assignments of its
\* variables under which the literal of g has the value of its function
EncodesGate(S, g, notless, cls) ==
  \A m \in SUBSET GateVariables(S, g, notless) :
    (\A cl \in Range(cls) : \E i \in 1..Len(cl) : LitTrue(m, cl[i]))
      <=> (LitTrue(m, GateLiteral(S, g, notless))
             <=> OpOfChildren(S, g, notless, m))

\* the gates whose clauses are asked for, and the NOT gates that the NOT-less
\* translation writes as the negated variable of their child
Encoded(S, notless) ==
  {g \in Range(Chain(S)) :
     /\ S.g[g].type \in {"REF", "NOT", "OR", "AND", "EQUIV", "EVEN", "ODD",
                          "ITE"}
     /\ \/ S.g[g].temp >= 1
        \/ notless /\ S.g[g].type = "NOT" /\ S.g[Kids(S, g)[1]].temp >= 1}

Decided(t, l, u, ks, v, ds) ==
  Circuit(Vars(3) \o <<[G(t, ks, <<Nm("r")>>) EXCEPT !.tmin = l, !.tmax = u]>>,
          SelectSeq(<<1, 2, 3>>, LAMBDA i : ds[i] = "T")
            \o (IF v THEN <<4>> ELSE <<>>),
          SelectSeq(<<1, 2, 3>>, LAMBDA i : ds[i] = "F")
            \o (IF v THEN <<>> ELSE <<4>>))

\* the lists of children of a gate of the type t
ChildLists(t) ==
  UNION {[1..n -> 1..3] :
           n \in CASE t \in {"REF", "NOT"} -> {1}
                    [] t = "ITE" -> {3}
                    [] OTHER -> 1..MaxKids}

\* the bounds of a gate of the type t
Bounds(t) ==
  CASE t = "THRESHOLD" -> {lu \in (0..MaxKids) \X (0..MaxKids) : lu[1] <= lu[2]}
    [] t = "ATLEAST" -> {<<l, 0>> : l \in 0..MaxKids}
    [] OTHER -> {<<0, 0>>}

\* the types of the gates that are asked whether they are justified
DecidedTypes ==
  {"REF", "NOT", "EQUIV", "OR", "AND", "ODD", "EVEN", "ITE", "THRESHOLD",
   "ATLEAST"}

\* the store of the circuit c after its constraints have been forced
Constrained(c) ==
  LET S == FoldL(LAMBDA T, g : Force(T, g, FALSE),
                 FoldL(LAMBDA T, g : Force(T, g, TRUE), Build(c), c.at), c.af)
  IN [S EXCEPT !.at = <<>>, !.af = <<>>]

\* a determined gate over determined and undetermined children
InitJustified ==
  /\ \E t \in DecidedTypes, v \in BOOLEAN, ds \in [1..3 -> {"T", "F", "U"}] :
       \E lu \in Bounds(t), ks \in ChildLists(t) :
         inp = Decided(t, lu[1], lu[2], ks, v, ds)
  /\ bc = Constrained(inp)
  /\ opts = Defaults
  /\ pc = "justify"
  /\ loc = [nrel |-> 0, max_var |-> 0, nclauses |-> 0, printed |-> 0]
  /\ out = <<>>

\* is_justified returns true or false, or calls internal_error
Justify ==
  /\ pc = "justify"
  /\ IF JustifiedFails(bc, TopGate(bc))
     THEN bc' = Abort(bc) /\ pc' = "aborted"
     ELSE /\ pc' = IF IsJustified(bc, TopGate(bc)) THEN "justified"
                   ELSE "unjustified"
          /\ bc' = bc
  /\ UNCHANGED <<opts, inp, loc, out>>

SpecJustified == InitJustified /\ [][Justify]_vars

\* the values that the children of the gate g may take: a determined child
\* keeps its value
ChildValues(S, g) ==
  {a \in [Range(Kids(S, g)) -> BOOLEAN] :
     \A c \in Range(Kids(S, g)) : S.g[c].det => a[c] = S.g[c].val}

\* the function of the gate g applied to the values a of its children
FunctionValue(S, g, a) ==
  LET ks == Kids(S, g)
      nt == Cardinality({i \in 1..Len(ks) : a[ks[i]]})
      t == S.g[g].type
  IN CASE t = "NOT" -> ~a[ks[1]]
       [] t = "OR" -> nt > 0
       [] t = "AND" -> nt = Len(ks)
       [] t = "EQUIV" -> nt = 0 \/ nt = Len(ks)
       [] t = "ODD" -> nt % 2 = 1
       [] t = "EVEN" -> nt % 2 = 0
       [] t = "ITE" -> IF a[ks[1]] THEN a[ks[2]] ELSE a[ks[3]]
       [] t = "THRESHOLD" -> S.g[g].tmin <= nt /\ nt <= S.g[g].tmax
       [] t = "ATLEAST" -> S.g[g].tmin <= nt
       [] OTHER -> FALSE

\* the gate g has its value whatever its undetermined children are
ValueImplied(S, g) ==
  \A a \in ChildValues(S, g) : FunctionValue(S, g, a) = S.g[g].val

\* C22: when is_justified has returned true for a determined NOT, EQUIV, OR,
\* AND, ODD, EVEN, ITE, THRESHOLD or ATLEAST gate, the function of the gate
\* has the value of the gate under every assignment of values to its
\* undetermined children; so has every determined and justified gate that
\* the cone of influence pass skips as a root
C22_JustifiedIsImplied ==
  /\ pc = "justified" => ValueImplied(bc, TopGate(bc))
  /\ pc = "coi" =>
       \A g \in Range(Chain(bc)) :
         (bc.g[g].type \notin {"VAR", "TRUE", "FALSE"} /\ IsJustified(bc, g))
           => ValueImplied(bc, g)

\* a cardinality gate determined to false is justified by a child that is
\* true twice, with an undetermined child left
C22_Witness ==
  /\ pc = "justified" /\ bc.g[TopGate(bc)].type = "THRESHOLD"
  /\ ~bc.g[TopGate(bc)].val /\ Kids(bc, TopGate(bc)) = <<1, 1, 2>>
  /\ bc.g[1].det /\ bc.g[1].val /\ ~bc.g[2].det

\* the gate g has been expanded with the polarity p
Expanded(S, g, p) == IF p THEN S.g[g].mpos ELSE S.g[g].mneg

\* mir_propagate_polarity(q) has been called on the gate c: the gate has been
\* expanded with q, or the call has returned at once because the gate is
\* determined to the other value or is justified
Received(S, c, q) ==
  \/ Expanded(S, c, q)
  \/ S.g[c].det /\ (S.g[c].val # q \/ IsJustified(S, c))

\* every child of g has received p and not-p
BothToAll(S, g, p) ==
  \A c \in Range(Kids(S, g)) : Received(S, c, p) /\ Received(S, c, ~p)

\* the polarity that an ODD or EVEN gate expanded with p passes on when
\* exactly one of its children is undetermined
DesiredValue(S, g, p) ==
  p # ((CountChildInfo(S, g).t % 2 = 1) = (S.g[g].type = "ODD"))

\* the gate g is an ODD or EVEN gate with exactly one undetermined child
OneUndetermined(S, g) ==
  S.g[g].type \in {"ODD", "EVEN"} /\ CountChildInfo(S, g).u = 1

\* the child c has no other parent than g, is undetermined, and g has been
\* expanded with p only: c has been expanded with q only
OnlyTo(S, g, p, c, q) ==
  (/\ ~Expanded(S, g, ~p) /\ ~S.g[c].det
   /\ \A i \in 1..Len(Folks(S, c)) : Folks(S, c)[i] = g)
    => (Expanded(S, c, q) /\ ~Expanded(S, c, ~q))

\* the polarities have been computed
PolarityDone == pc = "count" /\ opts.polarity

\* C23 as stated: an EQUIV, ODD, EVEN or ITE gate expanded with the polarity
\* p has passed p and not-p to every child, except an ODD or EVEN gate with
\* exactly one undetermined child, which has passed the polarity computed
\* from p and the parity of its true children
C23_BothPolaritiesToEveryChild ==
  PolarityDone =>
    \A g \in Range(Chain(bc)), p \in BOOLEAN :
      (bc.g[g].type \in {"EQUIV", "ODD", "EVEN", "ITE"} /\ Expanded(bc, g, p))
        => IF OneUndetermined(bc, g)
           THEN \A c \in Range(Kids(bc, g)) :
                  Received(bc, c, DesiredValue(bc, g, p))
           ELSE BothToAll(bc, g, p)

\* C23: an EQUIV, ODD or EVEN gate expanded with the polarity p has passed p
\* and not-p to every child, except an ODD or EVEN gate with exactly one
\* undetermined child, which has passed only the polarity computed from p and
\* the parity of its true children; an ITE gate expanded with p has passed p
\* and not-p to its first child and only p to its second and third child
C23_PolaritiesToChildren ==
  PolarityDone =>
    \A g \in Range(Chain(bc)), p \in BOOLEAN :
      (bc.g[g].type \in {"EQUIV", "ODD", "EVEN", "ITE"} /\ Expanded(bc, g, p))
        => IF OneUndetermined(bc, g)
           THEN \A c \in Range(Kids(bc, g)) :
                  /\ Received(bc, c, DesiredValue(bc, g, p))
                  /\ OnlyTo(bc, g, p, c, DesiredValue(bc, g, p))
           ELSE IF bc.g[g].type = "ITE"
           THEN /\ Received(bc, Kids(bc, g)[1], p)
                /\ Received(bc, Kids(bc, g)[1], ~p)
                /\ \A i \in 2..3 :
                     /\ Received(bc, Kids(bc, g)[i], p)
                     /\ Kids(bc, g)[i] # Kids(bc, g)[1] =>
                          OnlyTo(bc, g, p, Kids(bc, g)[i], p)
           ELSE BothToAll(bc, g, p)

\* an ITE gate has been expanded with the polarity true only: its first child
\* has both polarities, its second and third child the polarity true only
C23_Witness ==
  /\ PolarityDone
  /\ \E g \in Range(Chain(bc)) :
       /\ bc.g[g].type = "ITE" /\ bc.g[g].mpos /\ ~bc.g[g].mneg
       /\ Cardinality(Range(Kids(bc, g))) = 3
       /\ bc.g[Kids(bc, g)[1]].mpos /\ bc.g[Kids(bc, g)[1]].mneg
       /\ \A i \in 2..3 : /\ bc.g[Kids(bc, g)[i]].mpos
                           /\ ~bc.g[Kids(bc, g)[i]].mneg

\* simplify on the gate g of the store S reaches the search for a least child:
\* g is a true EQUIV gate with two or more children, none of them determined,
\* that is still one after its duplicate children have been removed, and no
\* input gate among its children has been unified
ReachesLeastChild(S, g) ==
  /\ S.res = "ok" /\ S.g[g].type = "EQUIV" /\ S.g[g].det /\ S.g[g].val
  /\ CountChildren(S, g) >= 2
  /\ \A c \in Range(Kids(S, g)) : ~S.g[c].det
  /\ Then(RemoveGNotGAndDuplicateChildren(S, g), LAMBDA T :
       /\ T.res = "ok" /\ ~T.g[g].inps /\ T.g[g].type = "EQUIV"
       /\ T.mti => ~EquivUnifyInputs(T, g).done)

\* the store in which the search for a least child begins
AtLeastChild(S, g) ==
  Then(RemoveGNotGAndDuplicateChildren(S, g), LAMBDA T :
    IF T.mti THEN EquivUnifyInputs(T, g).S ELSE T)

\* the child l of g depends on no other child of g in the store S
IsLeast(S, g, l) ==
  \A c \in Range(Kids(S, g)) \ {l} : c \notin Descendants(S, {l})

\* in the store S every child of g but l has no parent but g
OnlyUnder(S, g, l) ==
  \A c \in Range(Kids(S, g)) \ {l} :
    \A i \in 1..Len(Folks(S, c)) : Folks(S, c)[i] = g

\* C24: when simplify on a true EQUIV gate reaches the search for a least
\* child, the child it selects depends on no other child of the gate; after
\* the step every other child has no parent edge but those from the gate
C24_LeastChildIsLeast ==
  [][(/\ pc \in {"pop1", "pop2"} /\ bc.ps # <<>>
      /\ ReachesLeastChild(Pop(bc), Head(bc.ps)))
       => /\ IsLeast(AtLeastChild(Pop(bc), Head(bc.ps)), Head(bc.ps),
                     LeastChild(AtLeastChild(Pop(bc), Head(bc.ps)),
                                Head(bc.ps)))
          /\ bc'.res = "ok"
          /\ OnlyUnder(bc', Head(bc.ps),
                       LeastChild(AtLeastChild(Pop(bc), Head(bc.ps)),
                                  Head(bc.ps)))]_vars

\* the EQUIV gate r over s, u and w has had its turn: the parents q of u and
\* p of w have been moved to a least child, which is not the first child
C24_Witness ==
  /\ pc \in {"pop1", "pop2"} /\ bc.res = "ok"
  /\ inp = Lattice(<<4, 3, 5>>)
  /\ bc.g[8].type = "EQUIV" /\ Kids(bc, 8) = <<4, 3, 5>>
  /\ Folks(bc, 4) = <<8>>
  /\ Kids(bc, 6) = Kids(bc, 7) /\ Kids(bc, 6) # <<4>>

\* the gate g of the store S has a number of children that its type allows
ArityOk(S, g) ==
  LET n == CountChildren(S, g)
      t == S.g[g].type
  IN CASE t \in {"REF", "NOT"} -> n = 1
       [] t = "ITE" -> n = 3
       [] t \in {"TRUE", "FALSE", "VAR"} -> n = 0
       [] t \in {"OR", "AND", "EQUIV", "ODD", "EVEN", "THRESHOLD", "ATLEAST"}
            -> n >= 1
       [] OTHER -> FALSE

\* C25: after every step of the simplifier and of the normaliser that has
\* returned true, every gate that is not deleted, the gates made by the step
\* included, has a number of children that its type allows: one for REF and
\* NOT, three for ITE, none for the constants and the input gates, one or
\* more for OR, AND, EQUIV, ODD, EVEN, THRESHOLD and ATLEAST
C25_ArityPreconditions ==
  (pc \in {"pop1", "pop2", "popn"} /\ bc.res = "ok") =>
     \A g \in Range(Chain(bc)) : ArityOk(bc, g)

\* the simplifier takes the THRESHOLD gate g from the propagation stack
CardinalityTurn(g) ==
  /\ pc \in {"pop1", "pop2"} /\ bc.ps # <<>> /\ Head(bc.ps) = g
  /\ bc.res = "ok" /\ bc.g[g].type = "THRESHOLD"

\* C26: no assertion fails in a step of the simplifier on a THRESHOLD gate:
\* whenever remove_cardinality_g_not_g finds a child marked as seen in the
\* opposite phase, one of the preceding child edges holds the complementary
\* gate, so that the assertions ca2 != ca hold
C26_ComplementFound ==
  [][\A g \in 1..Len(bc.g) : CardinalityTurn(g) => bc'.res # "error"]_vars

(***************************************************************************)
(* Children left without a parent by a step of the simplifier              *)
(***************************************************************************)
\* the gate c had a parent edge in S and has none in T, where it is not DELETED
Orphaned(S, T, c) ==
  /\ Folks(S, c) # <<>>
  /\ Folks(T, c) = <<>>
  /\ T.g[c].type # "DELETED"

\* C27: whenever a step of the simplifier that returns true removes child
\* edges and leaves a child with no parent edge, the child is on the
\* propagation stack when the step returns
C27_OrphansPushed ==
  [][(pc \in {"pop1", "pop2"} /\ bc.ps # <<>> /\ bc'.res = "ok")
       => \A c \in 1..Len(bc.g) :
            Orphaned(bc, bc', c) => c \in Range(bc'.ps)]_vars

(***************************************************************************)
(* Name handles and DELETED gates                                          *)
(***************************************************************************)
\* the places <<g, i>> of the store S where the name handle h is attached
Attached(S, h) ==
  UNION {{<<g, i>> : i \in {j \in 1..Len(S.g[g].handles) :
                                 S.g[g].handles[j] = h}} : g \in 1..Len(S.g)}

\* the name handles of the circuit c
HandlesOf(c) == UNION {Range(c.gates[i].names) : i \in 1..Len(c.gates)}

\* the gate g of S has no handle, no child edge and no parent edge
Detached(S, g) ==
  S.g[g].handles = <<>> /\ S.g[g].ch = <<>> /\ S.g[g].pa = <<>>

\* the name handle h is attached to exactly one gate of S, which is not DELETED
Held(S, h) ==
  /\ Cardinality(Attached(S, h)) = 1
  /\ \A p \in Attached(S, h) : S.g[p[1]].type # "DELETED"

\* C28: after any sequence of simplify, share and cnf_normalize steps, every
\* name handle (the internal names are removed before the first step) is
\* attached to exactly one gate, which is not DELETED, and every DELETED gate
\* has no handles, no children and no parents
C28_HandlesStayAttached ==
  /\ \A h \in HandlesOf(inp) : (pc = "force" \/ Head(h) # "_") => Held(bc, h)
  /\ \A g \in 1..Len(bc.g) : bc.g[g].type = "DELETED" => Detached(bc, g)

\* a REF gate with a name has been unified with its child, which has a name of
\* its own, and the normaliser has run
C28_Witness ==
  /\ pc = "coi" /\ bc.res = "ok"
  /\ \E g, c \in 1..Len(bc.g) :
       /\ inp.gates[g].type = "REF" /\ inp.gates[g].names # <<>>
       /\ bc.g[g].type = "DELETED"
       /\ Len(bc.g[c].handles) >= 2
       /\ Range(inp.gates[g].names) \subseteq Range(bc.g[c].handles)

\* the passes of main() that follow the normaliser
LaterPass ==
  pc \in {"coi", "number", "permute", "table", "polarity", "count", "print",
          "sat_exit"}

\* the absolute value of the literal l
Abs(l) == IF l < 0 THEN -l ELSE l

TempsClear(S) == \A g \in 1..Len(S.g) : S.g[g].temp = 0

\* C30: every call of Gate::simplify and of Gate::cnf_normalize that is entered
\* with the temp field of every gate equal to 0 returns, with true or with
\* false, with the temp field of every gate, the new ones included, equal to 0
C30_TempsRestored ==
  [][(pc \in {"pop1", "pop2", "popn"} /\ bc.ps # <<>> /\ TempsClear(bc)
        /\ bc'.res # "error")
       => TempsClear(bc')]_vars

(***************************************************************************)
(* The simplifier under every order of the propagation stack               *)
(***************************************************************************)

\* r := t(x, y, z) assigned to v, s := t(y, z) and q := NOT(s): the children
\* of s are among the children of r
Overlap(t, v) ==
  Circuit(Vars(3) \o <<G(t, <<2, 3>>, <<Nm("s")>>), G("NOT", <<4>>, <<Nm("q")>>),
                       G(t, <<1, 2, 3>>, <<Nm("r")>>)>>,
          IF v THEN <<6>> ELSE <<>>, IF v THEN <<>> ELSE <<6>>)

\* r := t1(s, z) assigned to v with s := t2(x, y) used by r alone
Inner(t1, t2, v) ==
  Circuit(Vars(3) \o <<G(t2, <<1, 2>>, <<>>), G(t1, <<4, 3>>, <<Nm("r")>>)>>,
          IF v THEN <<5>> ELSE <<>>, IF v THEN <<>> ELSE <<5>>)

\* the input circuits that are simplified under every order
OrderCircuits ==
  {Single(t, n, v) : t \in {"OR", "AND", "EQUIV", "ODD", "EVEN"},
                     n \in 2..MaxKids, v \in BOOLEAN}
    \cup {Card(lu[1], lu[2], MaxKids, v) :
            lu \in {<<0, 1>>, <<1, 2>>, <<2, 2>>}, v \in BOOLEAN}
    \cup {Ite(ks, v) : ks \in {<<1, 2, 3>>, <<1, 2, 2>>, <<1, 1, 2>>},
                       v \in BOOLEAN}
    \cup {Nested(t1, t2, 2, v, TRUE, TRUE) :
            t1 \in {"OR", "EQUIV", "ODD"}, t2 \in {"AND", "ODD"},
            v \in BOOLEAN}
    \cup {Nested("ODD", "OR", MaxKids, TRUE, FALSE, TRUE)}
    \cup {Pair(t1, t2, v) : t1 \in {"OR", "EQUIV"}, t2 \in {"AND", "ODD"},
                            v \in BOOLEAN}
    \cup {Shape(t, 0, 0, ks, v) :
            t \in {"OR", "EQUIV", "ODD"}, ks \in {<<1, 4, 2>>, <<1, 1, 2>>},
            v \in BOOLEAN}
    \cup {Shape("THRESHOLD", 1, 2, <<1, 4, 2>>, v) : v \in BOOLEAN}
    \cup {Overlap(t, v) : t \in {"OR", "AND"}, v \in BOOLEAN}
    \cup {Inner(t, t, v) : t \in {"OR", "AND"}, v \in BOOLEAN}

\* the circuit store without the gate at place i of the propagation stack
PopAt(S, i) ==
  [S EXCEPT !.ps = SubSeq(@, 1, i - 1) \o SubSeq(@, i + 1, Len(@)),
            !.g[S.ps[i]].inps = FALSE]

\* a rewriting loop that takes any gate of the propagation stack
SimplifyAnyGate ==
  /\ pc \in {"pop1", "pop2"} /\ bc.ps # <<>>
  /\ \E i \in 1..Len(bc.ps) : bc' = GateSimplify(PopAt(bc, i), bc.ps[i])
  /\ pc' = After(bc', pc)
  /\ UNCHANGED <<opts, inp, loc, out>>

\* the simplifier has been left
SimplifierLeft == pc \in {"coi", "unsat_exit", "aborted"}

InitAnyOrder ==
  /\ inp \in OrderCircuits
  /\ opts \in {Defaults, [Defaults EXCEPT !.all = TRUE]}
  /\ bc = Build(inp)
  /\ pc = "force"
  /\ loc = [nrel |-> 0, max_var |-> 0, nclauses |-> 0, printed |-> 0]
  /\ out = <<>>

NextAnyOrder ==
  \/ ForceTrue \/ ForceFalse \/ Prepare
  \/ SimplifyBegin \/ SimplifyAnyGate \/ SimplifyShare
  \/ NormalizeBegin \/ NormalizeGate \/ NormalizeEnd

\* main() runs on: a step is taken whenever one is possible.  A step of
\* NextAnyOrder is possible exactly when the simplifier has not been left, so
\* this is WF_vars(NextAnyOrder) with the enabling condition written out.
RunsOn == ([]<>SimplifierLeft) \/ ([]<><<NextAnyOrder>>_vars)

\* the two simplifier passes of main(), and the normalisation between them,
\* with the simplifier taking the gates in any order
SpecAnyOrder == InitAnyOrder /\ [][NextAnyOrder]_vars /\ RunsOn

\* C11: whatever the order in which the gates are taken off the propagation
\* stack, a rewriting loop that has gates to process reaches the empty stack
\* or an inconsistency, and the simplifier is left in the end
C11_SimplifierTerminates ==
  /\ (pc \in {"pop1", "pop2"} /\ bc.ps # <<>>)
       ~> (bc.ps = <<>> \/ bc.res # "ok")
  /\ <>SimplifierLeft

\* a loop has emptied the stack after a gate was put back on it
C11_Witness ==
  /\ pc = "pop2" /\ bc.ps = <<>> /\ bc.res = "ok" /\ bc.changed
  /\ Len(bc.g) > Len(inp.gates)
====
